---- MODULE Spec2Model ----
(***************************************************************************)
(* Model of the archive virtual filesystem of server/src/archive.rs:       *)
(* inner-path normalisation, the direct-child listing algorithm, reading   *)
(* one entry and extracting a selection, for the Zip and Tar backends;     *)
(* format detection and the dispatchers list_archive, read_archive_file    *)
(* and extract_archive, with the single-file formats they serve and the    *)
(* listing of a cabinet; calls that run concurrently.                      *)
(*                                                                         *)
(* A string is a sequence of one-character strings, <<"a", "/", "B">>, so  *)
(* that the string functions of the source are computed, not assumed.      *)
(***************************************************************************)
EXTENDS Integers, Sequences, FiniteSets, TLC

(***************************************************************************)
(* Bounds of the model.                                                    *)
(***************************************************************************)
\* the largest number of stored records of an archive
MaxRecords == 2

\* the longest string normalise_inner is applied to on its own
MaxLen == 4

\* the number of list and read calls that run at the same time
MaxCalls == 2

(***************************************************************************)
(* Strings.                                                                *)
(***************************************************************************)
\* byte value of a character (str::cmp compares bytes)
Code(c) ==
  CASE c = "." -> 46
    [] c = "/" -> 47
    [] c = "B" -> 66
    [] c = "\\" -> 92
    [] c = "a" -> 97
    [] c = "b" -> 98
    [] c = "d" -> 100

\* s.starts_with(pre)
starts_with(s, pre) ==
  /\ Len(pre) <= Len(s)
  /\ \A i \in 1..Len(pre) : s[i] = pre[i]

\* s.contains('/')
contains_slash(s) == \E i \in 1..Len(s) : s[i] = "/"

\* p.replace('\\', "/")
replace_backslash(p) == [i \in 1..Len(p) |-> IF p[i] = "\\" THEN "/" ELSE p[i]]

RECURSIVE trim_start_matches(_)
\* s.trim_start_matches('/')
trim_start_matches(s) ==
  IF s # <<>> /\ Head(s) = "/" THEN trim_start_matches(Tail(s)) ELSE s

\* s.strip_suffix('/'): one trailing slash less
strip_suffix_once(s) ==
  IF s # <<>> /\ s[Len(s)] = "/" THEN SubSeq(s, 1, Len(s) - 1) ELSE s

RECURSIVE trim_end_matches(_)
\* s.trim_end_matches('/')
trim_end_matches(s) ==
  IF s # <<>> /\ s[Len(s)] = "/"
  THEN trim_end_matches(SubSeq(s, 1, Len(s) - 1))
  ELSE s

\* normalise_inner, as written: it trims the ends and keeps inner "//"
normalise_inner(p) ==
  trim_end_matches(trim_start_matches(replace_backslash(p)))

RECURSIVE split_first(_)
\* s.split('/').next(): the part of s before its first '/'
split_first(s) ==
  IF s = <<>> \/ Head(s) = "/" THEN <<>>
  ELSE <<Head(s)>> \o split_first(Tail(s))

RECURSIVE rsplit_first(_)
\* s.rsplit('/').next(): the part of s after its last '/'
rsplit_first(s) ==
  IF s = <<>> \/ s[Len(s)] = "/" THEN <<>>
  ELSE rsplit_first(SubSeq(s, 1, Len(s) - 1)) \o <<s[Len(s)]>>

\* direct_child_path(entry, parent); the caller has checked that entry
\* starts with parent + "/" when parent is not empty
direct_child_path(entry, parent) ==
  IF parent = <<>>
  THEN split_first(entry)
  ELSE LET rest == SubSeq(entry, Len(parent) + 2, Len(entry))
       IN  parent \o <<"/">> \o split_first(rest)

\* is_direct_child(entry, parent)
is_direct_child(entry, parent) ==
  IF parent = <<>>
  THEN ~contains_slash(entry)
  ELSE /\ starts_with(entry, parent \o <<"/">>)
       /\ ~contains_slash(SubSeq(entry, Len(parent) + 2, Len(entry)))

RECURSIVE str_lt(_, _)
\* a < b in str::cmp: lexicographic on bytes
str_lt(a, b) ==
  IF b = <<>> THEN FALSE
  ELSE IF a = <<>> THEN TRUE
  ELSE IF Code(Head(a)) # Code(Head(b)) THEN Code(Head(a)) < Code(Head(b))
  ELSE str_lt(Tail(a), Tail(b))

(***************************************************************************)
(* Stored records.  A record is what the container yields for one entry:   *)
(* its stored name, the directory flag of its header, the size and         *)
(* modification time of its header, and its contents, a sequence of bytes. *)
(* compressed_size and compression are fields of a Zip header and of a     *)
(* cabinet's file and folder; a Tar header has neither and the Tar backend *)
(* reads neither.                                                          *)
(***************************************************************************)
Formats == {"zip", "tar"}

\* the stored names the archives of the model are built from
RawNames ==
  { <<"a">>,
    <<"a", "/">>,
    <<"a", "/", "B">>,
    <<"a", "/", "b">>,
    <<"a", "/", "B", "/", "a">>,
    <<"a", "/", "B", "a">>,
    <<"a", "/", "/", "B">>,
    <<"/">>,
    <<".">>,
    <<".", "/", "a">>,
    <<"B">>,
    <<"a", "\\", "B">>,
    <<"/", "a">> }

\* the inner paths a caller asks for
InnerPaths ==
  { <<>>,
    <<"a">>,
    <<"a", "/">>,
    <<"\\", "a", "/">>,
    <<"a", "/", "B">>,
    <<"a", "/", "B", "/", "a">>,
    <<".">>,
    <<"B">> }

\* ZipFile::is_dir: the stored name ends with a separator
zip_is_dir(name) == name # <<>> /\ name[Len(name)] \in {"/", "\\"}

\* n bytes of the value b
Bytes(b, n) == [j \in 1..n |-> b]

\* the i-th record of an archive: header fields and contents follow from
\* the position, so that distinct records carry distinct metadata and bytes.
\* A file record holds i bytes of the value i; at an odd position it is
\* deflated (two bytes more than its contents), at an even one stored.
Record(i, name, is_dir) ==
  [ name            |-> name,
    is_dir          |-> is_dir,
    size            |-> IF is_dir THEN 0 ELSE i,
    compressed_size |-> IF is_dir THEN 0 ELSE IF i % 2 = 1 THEN i + 2 ELSE i,
    compression     |-> IF ~is_dir /\ i % 2 = 1 THEN "Deflated" ELSE "Stored",
    modified        |-> i,
    data            |-> IF is_dir THEN <<>> ELSE Bytes(i, i) ]

\* the i-th file record of a cabinet: the compression is that of its folder
CabRecord(i, name) ==
  [ Record(i, name, FALSE) EXCEPT
      !.compression = IF i % 2 = 1 THEN "MsZip" ELSE "None" ]

\* the archives of a format with exactly n records
ArchivesOf(fmt, n) ==
  { r \in [1..n -> [name : RawNames, is_dir : BOOLEAN]] :
      fmt = "zip" => \A i \in 1..n : r[i].is_dir = zip_is_dir(r[i].name) }

(***************************************************************************)
(* Listing.                                                                *)
(***************************************************************************)
ArchiveEntry(name, inner_path, entry_type, size, compressed_size, modified, compression) ==
  [ name            |-> name,
    inner_path      |-> inner_path,
    entry_type      |-> entry_type,
    size            |-> size,
    compressed_size |-> compressed_size,
    modified        |-> modified,
    compression     |-> compression ]

\* HashMap::new()
EmptyMap == [k \in {} |-> 0]

\* seen.insert(key, value): the last writer wins
insert_overwriting(seen, key, value) ==
  [k \in DOMAIN seen \cup {key} |-> IF k = key THEN value ELSE seen[k]]

\* seen.entry(key).or_insert_with(|| value): the first writer wins
or_insert_with(seen, key, value) ==
  IF key \in DOMAIN seen THEN seen
  ELSE [k \in DOMAIN seen \cup {key} |-> IF k = key THEN value ELSE seen[k]]

\* the subtree test without the separator: "a/Ba" would lie under "a/B"
is_under_parent_no_separator(name, parent) ==
  IF parent = <<>> THEN TRUE
  ELSE name = parent \/ starts_with(name, parent)

\* the subtree test of the listing loops, before `name == parent` is excluded
is_under_parent(name, parent) ==
  IF parent = <<>> THEN TRUE
  ELSE name = parent \/ starts_with(name, parent \o <<"/">>)

\* body of the loop of list_zip for one stored record
list_zip_entry(seen, rec, parent) ==
  LET name == normalise_inner(rec.name) IN
  IF name = <<>> THEN seen
  ELSE IF ~is_under_parent(name, parent) \/ name = parent THEN seen
  ELSE
    LET child_path == direct_child_path(name, parent)
        child_name == rsplit_first(child_path)
    IN  IF child_path = name
        THEN or_insert_with(seen, child_path,
               ArchiveEntry(child_name, child_path,
                            IF zip_is_dir(rec.name) THEN "Directory" ELSE "File",
                            rec.size, rec.compressed_size, rec.modified,
                            rec.compression))
        ELSE or_insert_with(seen, child_path,
               ArchiveEntry(child_name, child_path, "Directory", 0, 0, 0, "Stored"))

\* body of the loop of list_tar_reader for one stored record
list_tar_entry(seen, rec, parent, format) ==
  LET name == normalise_inner(rec.name) IN
  IF name = <<>> \/ name = <<".">> THEN seen
  ELSE IF ~is_under_parent(name, parent) \/ name = parent THEN seen
  ELSE
    LET child_path == direct_child_path(name, parent)
        child_name == rsplit_first(child_path)
    IN  IF child_path = name
        THEN or_insert_with(seen, child_path,
               ArchiveEntry(child_name, child_path,
                            IF rec.is_dir THEN "Directory" ELSE "File",
                            rec.size, 0, rec.modified, format))
        ELSE or_insert_with(seen, child_path,
               ArchiveEntry(child_name, child_path, "Directory", 0, 0, 0, format))

RECURSIVE list_seen(_, _, _)
\* the map `seen` after the loop over the records, in the backend's order
list_seen(fmt, recs, parent) ==
  IF recs = <<>> THEN EmptyMap
  ELSE LET before == list_seen(fmt, SubSeq(recs, 1, Len(recs) - 1), parent)
           rec    == recs[Len(recs)]
       IN  IF fmt = "zip"
           THEN list_zip_entry(before, rec, parent)
           ELSE list_tar_entry(before, rec, parent, fmt)

\* the comparator without the names: directories first, nothing more
entry_lt_type_only(a, b) ==
  a.entry_type = "Directory" /\ b.entry_type # "Directory"

\* the comparator of entries.sort_by: directories first, then name.cmp
entry_lt(a, b) ==
  \/ a.entry_type = "Directory" /\ b.entry_type # "Directory"
  \/ /\ (a.entry_type = "Directory") = (b.entry_type = "Directory")
     /\ str_lt(a.name, b.name)

RECURSIVE sort_insert(_, _)
\* insert e into a sorted sequence behind the elements that are not greater
sort_insert(sorted, e) ==
  IF sorted = <<>> THEN <<e>>
  ELSE IF entry_lt(e, Head(sorted)) THEN <<e>> \o sorted
  ELSE <<Head(sorted)>> \o sort_insert(Tail(sorted), e)

RECURSIVE sort_by(_)
\* entries.sort_by(..): a stable sort
sort_by(entries) ==
  IF entries = <<>> THEN <<>>
  ELSE sort_insert(sort_by(SubSeq(entries, 1, Len(entries) - 1)),
                   entries[Len(entries)])

\* seen.into_values().collect(): the values in any order
into_values(seen) ==
  { [i \in 1..Cardinality(DOMAIN seen) |-> seen[ks[i]]] :
      ks \in { f \in [1..Cardinality(DOMAIN seen) -> DOMAIN seen] :
                 \A i, j \in 1..Cardinality(DOMAIN seen) : i # j => f[i] # f[j] } }

RECURSIVE total_size(_)
\* entries.iter().map(|e| e.size).sum()
total_size(entries) ==
  IF entries = <<>> THEN 0 ELSE Head(entries).size + total_size(Tail(entries))

\* the ArchiveListing with the inner path as the caller wrote it
ArchiveListing_requested_path(fmt, inner_path, values) ==
  LET entries == sort_by(values) IN
  [ inner_path |-> inner_path,
    format     |-> fmt,
    entries    |-> entries,
    total_size |-> total_size(entries) ]

\* the ArchiveListing that list_zip / list_tar_reader return for one
\* collection order of the map
ArchiveListing(fmt, inner_path, values) ==
  LET entries == sort_by(values) IN
  [ inner_path |-> normalise_inner(inner_path),
    format     |-> fmt,
    entries    |-> entries,
    total_size |-> total_size(entries) ]

(***************************************************************************)
(* Reading one entry.  A result is [ok, index, data]: `index` is the       *)
(* record that was read (0: none) and `data` its contents.                 *)
(***************************************************************************)
NotFound == [ok |-> FALSE, index |-> 0, data |-> <<>>]

Found(recs, i) == [ok |-> TRUE, index |-> i, data |-> recs[i].data]

\* read_tar_file comparing the stored name as it is, not normalised
read_tar_file_stored_name(recs, inner_path) ==
  LET target  == normalise_inner(inner_path)
      matches == { i \in 1..Len(recs) : recs[i].name = target }
  IN  IF matches = {} THEN NotFound
      ELSE Found(recs, CHOOSE i \in matches : \A j \in matches : i <= j)

\* read_tar_file: the first record, in archive order, whose normalised
\* path is the normalised target
read_tar_file(recs, inner_path) ==
  LET target  == normalise_inner(inner_path)
      matches == { i \in 1..Len(recs) : normalise_inner(recs[i].name) = target }
  IN  IF matches = {} THEN NotFound
      ELSE Found(recs, CHOOSE i \in matches : \A j \in matches : i <= j)

\* ZipArchive::by_name: looks the stored name up as it is; of two records
\* with the same stored name the name map keeps the later one
by_name(recs, name) ==
  LET matches == { i \in 1..Len(recs) : recs[i].name = name }
  IN  IF matches = {} THEN 0
      ELSE CHOOSE i \in matches : \A j \in matches : j <= i

\* read_zip_file: by_name(target), or else by_name(target + "/")
read_zip_file(recs, inner_path) ==
  LET target == normalise_inner(inner_path)
      first  == by_name(recs, target)
      second == by_name(recs, target \o <<"/">>)
  IN  IF first # 0 THEN Found(recs, first)
      ELSE IF second # 0 THEN Found(recs, second)
      ELSE NotFound

\* Cabinet::read_file(name): the first file record stored under that name
cab_read_file(recs, name) ==
  LET matches == { i \in 1..Len(recs) : recs[i].name = name }
  IN  IF matches = {} THEN NotFound
      ELSE Found(recs, CHOOSE i \in matches : \A j \in matches : i <= j)

\* read_cab_file: read_file on the normalised target
read_cab_file(recs, inner_path) == cab_read_file(recs, normalise_inner(inner_path))

\* read_archive_file: dispatch on the format
read_archive_file(fmt, recs, inner_path) ==
  IF fmt = "zip" THEN read_zip_file(recs, inner_path)
  ELSE IF fmt = "cab" THEN read_cab_file(recs, inner_path)
  ELSE read_tar_file(recs, inner_path)

(***************************************************************************)
(* The destination directory.  `fs` maps the paths that exist below the    *)
(* destination (a path is the sequence of its components; <<>> is the      *)
(* destination itself) to a directory or to a file with its contents.      *)
(* Contents are a sequence of bytes.                                       *)
(***************************************************************************)
Destination == <<"d">>

Dir == [kind |-> "dir", data |-> <<>>]

File(data) == [kind |-> "file", data |-> data]

is_dir_at(fs, path) == path \in DOMAIN fs /\ fs[path].kind = "dir"

is_file_at(fs, path) == path \in DOMAIN fs /\ fs[path].kind = "file"

RECURSIVE split_slash(_)
\* s.split('/'): the segments of s
split_slash(s) ==
  IF ~contains_slash(s) THEN <<s>>
  ELSE <<split_first(s)>> \o split_slash(SubSeq(s, Len(split_first(s)) + 2, Len(s)))

\* the components of Path::new(destination).join(name) below destination,
\* as the operating system resolves them: empty segments and "." vanish;
\* ".." stays a component (the stored names of the model hold it only in
\* front, where it leads to the parent of the destination)
components(name) ==
  SelectSeq(split_slash(name), LAMBDA seg : seg # <<>> /\ seg # <<".">>)

\* Path::new(destination).join(&name).to_string_lossy()
out_path(name) == Destination \o <<"/">> \o name

\* std::fs::create_dir_all(path): fails when a component is a file
create_dir_all(fs, path) ==
  LET prefixes == { SubSeq(path, 1, k) : k \in 0..Len(path) }
      blocked  == \E q \in prefixes : is_file_at(fs, q)
  IN  [ ok |-> ~blocked,
        fs |-> IF blocked THEN fs
               ELSE [q \in DOMAIN fs \cup prefixes |->
                       IF q \in DOMAIN fs THEN fs[q] ELSE Dir] ]

\* std::fs::File::create(path): fails on a directory and below a missing
\* or non-directory parent; otherwise the file exists and is empty
file_create(fs, path) ==
  LET ok == /\ path # <<>>
            /\ ~is_dir_at(fs, path)
            /\ is_dir_at(fs, SubSeq(path, 1, Len(path) - 1))
  IN  [ ok |-> ok,
        fs |-> IF ~ok THEN fs
               ELSE [q \in DOMAIN fs \cup {path} |->
                       IF q = path THEN File(<<>>) ELSE fs[q]] ]

\* io::copy(&mut entry, &mut f): the file holds the contents of the record
io_copy(fs, path, data) == [fs EXCEPT ![path] = File(data)]

\* f.write_all(bytes) through a handle whose position is `off`: the bytes
\* replace what the file holds from there on; a file that has become
\* shorter than `off` is filled up with zero bytes
write_at(fs, path, off, bytes) ==
  LET old    == fs[path].data
      padded == IF Len(old) < off THEN old \o Bytes(0, off - Len(old)) ELSE old
  IN  [fs EXCEPT ![path] =
         File(SubSeq(padded, 1, off) \o bytes
              \o SubSeq(padded, off + Len(bytes) + 1, Len(padded)))]

(***************************************************************************)
(* Extraction.                                                             *)
(***************************************************************************)
\* the selection filter without the separator: "a/Ba" would match "a/B"
matches_no_separator(name, inner_paths) ==
  \E k \in 1..Len(inner_paths) :
    LET np == normalise_inner(inner_paths[k])
    IN  name = np \/ starts_with(name, np)

\* the selection filter of extract_zip, extract_tar and extract_cab
matches(name, inner_paths) ==
  \E k \in 1..Len(inner_paths) :
    LET np == normalise_inner(inner_paths[k])
    IN  name = np \/ starts_with(name, np \o <<"/">>)

\* does the loop of extract_zip / extract_tar / extract_cab skip this
\* record?  Only extract_tar passes over "."
extract_skips(fmt, rec, inner_paths) ==
  LET name == normalise_inner(rec.name) IN
  \/ name = <<>>
  \/ fmt \notin {"zip", "cab"} /\ name = <<".">>
  \/ inner_paths # <<>> /\ ~matches(name, inner_paths)

\* entry.is_dir() of extract_zip, entry.header().entry_type().is_dir() of
\* extract_tar; extract_cab writes a file for every record
extract_is_dir(fmt, rec) ==
  IF fmt = "zip" THEN zip_is_dir(rec.name)
  ELSE IF fmt = "cab" THEN FALSE
  ELSE rec.is_dir

\* the loop body, were it to list the directories it creates as well
extract_entry_lists_directories(fmt, rec, inner_paths, fs, extracted) ==
  LET name == normalise_inner(rec.name)
      path == components(name)
  IN
  IF extract_skips(fmt, rec, inner_paths)
  THEN [failed |-> FALSE, fs |-> fs, extracted |-> extracted, wrote |-> FALSE]
  ELSE IF extract_is_dir(fmt, rec)
  THEN LET made == create_dir_all(fs, path)
       IN  [failed |-> ~made.ok, fs |-> made.fs,
            extracted |-> IF made.ok THEN Append(extracted, out_path(name))
                          ELSE extracted,
            wrote |-> made.ok]
  ELSE LET made == IF path = <<>> THEN [ok |-> TRUE, fs |-> fs]
                   ELSE create_dir_all(fs, SubSeq(path, 1, Len(path) - 1))
           file == file_create(made.fs, path)
       IN  IF ~made.ok
           THEN [failed |-> TRUE, fs |-> fs, extracted |-> extracted, wrote |-> FALSE]
           ELSE IF ~file.ok
           THEN [failed |-> TRUE, fs |-> made.fs, extracted |-> extracted,
                 wrote |-> FALSE]
           ELSE [failed |-> FALSE, fs |-> io_copy(file.fs, path, rec.data),
                 extracted |-> Append(extracted, out_path(name)), wrote |-> TRUE]

\* the loop body, were a failing record to undo what was extracted before
extract_entry_rolls_back(fmt, rec, inner_paths, fs, extracted) ==
  LET name == normalise_inner(rec.name)
      path == components(name)
  IN
  IF extract_skips(fmt, rec, inner_paths)
  THEN [failed |-> FALSE, fs |-> fs, extracted |-> extracted, wrote |-> FALSE]
  ELSE IF extract_is_dir(fmt, rec)
  THEN LET made == create_dir_all(fs, path)
       IN  [failed |-> ~made.ok,
            fs |-> IF made.ok THEN made.fs ELSE create_dir_all(EmptyMap, <<>>).fs,
            extracted |-> extracted, wrote |-> made.ok]
  ELSE LET made == IF path = <<>> THEN [ok |-> TRUE, fs |-> fs]
                   ELSE create_dir_all(fs, SubSeq(path, 1, Len(path) - 1))
           file == file_create(made.fs, path)
       IN  IF ~made.ok
           THEN [failed |-> TRUE, fs |-> create_dir_all(EmptyMap, <<>>).fs,
                 extracted |-> extracted, wrote |-> FALSE]
           ELSE IF ~file.ok
           THEN [failed |-> TRUE, fs |-> create_dir_all(EmptyMap, <<>>).fs,
                 extracted |-> extracted, wrote |-> FALSE]
           ELSE [failed |-> FALSE, fs |-> io_copy(file.fs, path, rec.data),
                 extracted |-> Append(extracted, out_path(name)), wrote |-> TRUE]

\* body of the loop of extract_zip / extract_tar for one record: the
\* filesystem and the list `extracted` afterwards, whether the body failed
\* (the `?` returned an error), and whether the record was written
extract_entry(fmt, rec, inner_paths, fs, extracted) ==
  LET name == normalise_inner(rec.name)
      path == components(name)
  IN
  IF extract_skips(fmt, rec, inner_paths)
  THEN [failed |-> FALSE, fs |-> fs, extracted |-> extracted, wrote |-> FALSE]
  ELSE IF extract_is_dir(fmt, rec)
  THEN LET made == create_dir_all(fs, path)
       IN  [failed |-> ~made.ok, fs |-> made.fs, extracted |-> extracted,
            wrote |-> made.ok]
  ELSE LET made == IF path = <<>> THEN [ok |-> TRUE, fs |-> fs]
                   ELSE create_dir_all(fs, SubSeq(path, 1, Len(path) - 1))
           file == file_create(made.fs, path)
       IN  IF ~made.ok
           THEN [failed |-> TRUE, fs |-> fs, extracted |-> extracted, wrote |-> FALSE]
           ELSE IF ~file.ok
           THEN [failed |-> TRUE, fs |-> made.fs, extracted |-> extracted,
                 wrote |-> FALSE]
           ELSE [failed |-> FALSE, fs |-> io_copy(file.fs, path, rec.data),
                 extracted |-> Append(extracted, out_path(name)), wrote |-> TRUE]

\* body of the loop of extract_cab for the i-th file record: the parent
\* directories, then read_file on the stored name, then fs::write
extract_cab_entry(recs, i, inner_paths, fs, extracted) ==
  extract_entry("cab",
                [recs[i] EXCEPT !.data = cab_read_file(recs, recs[i].name).data],
                inner_paths, fs, extracted)

(***************************************************************************)
(* Format detection.  A format is the name of its ArchiveFormat variant,   *)
(* "None" when detect finds none.                                          *)
(***************************************************************************)
\* char::to_lowercase on the letters the names of the model hold
Lower(c) ==
  CASE c = "A" -> "a"
    [] c = "B" -> "b"
    [] c = "G" -> "g"
    [] c = "R" -> "r"
    [] c = "T" -> "t"
    [] c = "Z" -> "z"
    [] OTHER -> c

\* str::to_lowercase
to_lowercase(s) == [i \in 1..Len(s) |-> Lower(s[i])]

\* str::ends_with
ends_with(s, suffix) ==
  /\ Len(suffix) <= Len(s)
  /\ SubSeq(s, Len(s) - Len(suffix) + 1, Len(s)) = suffix

\* lower.ends_with(s1) || lower.ends_with(s2) || ...
ends_with_any(s, suffixes) == \E suffix \in suffixes : ends_with(s, suffix)

\* the tests of detect, in the order of its if-chain
DetectRules ==
  << [ format |-> "TarGz",
       suffixes |-> { <<".", "t", "a", "r", ".", "g", "z">>,
                     <<".", "t", "g", "z">> } ],
     [ format |-> "TarBz2",
       suffixes |-> { <<".", "t", "a", "r", ".", "b", "z", "2">>,
                     <<".", "t", "b", "z", "2">>,
                     <<".", "t", "b", "z">> } ],
     [ format |-> "TarXz",
       suffixes |-> { <<".", "t", "a", "r", ".", "x", "z">>,
                     <<".", "t", "x", "z">> } ],
     [ format |-> "TarZst",
       suffixes |-> { <<".", "t", "a", "r", ".", "z", "s", "t">>,
                     <<".", "t", "a", "r", ".", "z", "s", "t", "d">>,
                     <<".", "t", "z", "s", "t">> } ],
     [ format |-> "Tar",
       suffixes |-> { <<".", "t", "a", "r">> } ],
     [ format |-> "Zip",
       suffixes |-> { <<".", "z", "i", "p">>,
                     <<".", "j", "a", "r">>,
                     <<".", "w", "a", "r">>,
                     <<".", "e", "a", "r">>,
                     <<".", "a", "p", "k">>,
                     <<".", "d", "o", "c", "x">>,
                     <<".", "x", "l", "s", "x">>,
                     <<".", "p", "p", "t", "x">>,
                     <<".", "o", "d", "t">>,
                     <<".", "o", "d", "s">>,
                     <<".", "o", "d", "p">> } ],
     [ format |-> "Gz",
       suffixes |-> { <<".", "g", "z">> } ],
     [ format |-> "Bz2",
       suffixes |-> { <<".", "b", "z", "2">> } ],
     [ format |-> "Xz",
       suffixes |-> { <<".", "x", "z">> } ],
     [ format |-> "Zst",
       suffixes |-> { <<".", "z", "s", "t">>,
                     <<".", "z", "s", "t", "d">> } ],
     [ format |-> "SevenZip",
       suffixes |-> { <<".", "7", "z">> } ],
     [ format |-> "Rar",
       suffixes |-> { <<".", "r", "a", "r">> } ],
     [ format |-> "Cab",
       suffixes |-> { <<".", "c", "a", "b">> } ],
     [ format |-> "Arj",
       suffixes |-> { <<".", "a", "r", "j">> } ],
     [ format |-> "Lzh",
       suffixes |-> { <<".", "l", "z", "h">>,
                     <<".", "l", "h", "a">> } ],
     [ format |-> "Ace",
       suffixes |-> { <<".", "a", "c", "e">> } ] >>

RECURSIVE first_match(_, _)
\* the format of the first rule one of whose suffixes ends s
first_match(rules, s) ==
  IF rules = <<>> THEN "None"
  ELSE IF ends_with_any(s, Head(rules).suffixes) THEN Head(rules).format
  ELSE first_match(Tail(rules), s)

\* detect comparing the path as it is spelt
detect_case_sensitive(path) == first_match(DetectRules, path)

\* detect without the compound-suffix tests that come first
detect_bare_suffix_only(path) ==
  first_match(SubSeq(DetectRules, 5, Len(DetectRules)), to_lowercase(path))

\* ArchiveFormat::detect
detect(path) == first_match(DetectRules, to_lowercase(path))

\* ArchiveFormat::as_str
as_str(format) ==
  CASE format = "Zip" -> "zip"
    [] format = "Tar" -> "tar"
    [] format = "TarGz" -> "tar.gz"
    [] format = "TarBz2" -> "tar.bz2"
    [] format = "TarXz" -> "tar.xz"
    [] format = "TarZst" -> "tar.zst"
    [] format = "Gz" -> "gz"
    [] format = "Bz2" -> "bz2"
    [] format = "Xz" -> "xz"
    [] format = "Zst" -> "zst"
    [] format = "SevenZip" -> "7z"
    [] format = "Rar" -> "rar"
    [] format = "Cab" -> "cab"
    [] format = "Arj" -> "arj"
    [] format = "Lzh" -> "lzh"
    [] format = "Ace" -> "ace"

TarFormats == {"Tar", "TarGz", "TarBz2", "TarXz", "TarZst"}

SingleFileFormats == {"Gz", "Bz2", "Xz", "Zst"}

\* the formats whose backend is behind a cargo feature
OptionalFormats == {"SevenZip", "Rar", "Cab", "Arj", "Lzh", "Ace"}

\* Path::file_name for a path that does not end in "/" or "..":
\* what follows the last separator
file_name(path) == rsplit_first(path)

\* Path::file_stem: the file name up to its last ".", the whole file name
\* when it has no "." or only the one it begins with
file_stem(path) ==
  LET name == file_name(path)
      dots == { i \in 1..Len(name) : name[i] = "." }
      last == CHOOSE i \in dots : \A j \in dots : j <= i
  IN  IF dots = {} THEN name
      ELSE IF last = 1 THEN name
      ELSE SubSeq(name, 1, last - 1)

(***************************************************************************)
(* The dispatcher.  The archive file is on disk or not; when it is, `len`  *)
(* is its length in bytes and `stream` what its compressed stream          *)
(* decompresses to.  `features` holds the optional formats whose backend   *)
(* is compiled in.  An error is the message it carries.                    *)
(***************************************************************************)
NoError == [message |-> "", format |-> ""]

\* "Unrecognised archive format: {archive_path}"
Unrecognised == [message |-> "Unrecognised archive format: {archive_path}", format |-> ""]

\* "Support for {} format not compiled in", fmt.as_str()
NotCompiled(format) ==
  [message |-> "Support for {} format not compiled in", format |-> as_str(format)]

\* "Cannot open {archive_path}"
CannotOpen == [message |-> "Cannot open {archive_path}", format |-> ""]

\* the io::Error of File::open or fs::metadata on a file that is missing
OsError == [message |-> "No such file or directory (os error 2)", format |-> ""]

\* "Entry '{inner_path}' not found in archive", "... not found in ZIP"
EntryNotFound == [message |-> "Entry '{inner_path}' not found in archive", format |-> ""]

\* a match on the format without an arm for it: rustc rejects the function
NoMatchArm(format) ==
  [message |-> "error[E0004]: non-exhaustive patterns", format |-> as_str(format)]

\* the errors a missing archive file gives
IoErrors == {CannotOpen, OsError}

\* how far a dispatcher got: the format it detected, the arm of its match,
\* its error, whether it touched the archive file, whether it created the
\* destination
Dispatched(op, format, arm, error, opened, created) ==
  [ op |-> op, format |-> format, arm |-> arm, error |-> error,
    opened |-> opened, created |-> created ]

\* the arms all three dispatchers have: Zip, the Tar formats, single files.
\* list_zip and read_zip_file put "Cannot open" around the error of
\* File::open, extract_zip returns it as it is
common_arm(op, format, disk, created) ==
  IF format = "Zip"
  THEN Dispatched(op, format, "zip",
                  IF disk.exists THEN NoError
                  ELSE IF op = "extract" THEN OsError ELSE CannotOpen,
                  TRUE, created)
  ELSE IF format \in TarFormats
  THEN Dispatched(op, format, "tar", IF disk.exists THEN NoError ELSE OsError,
                  TRUE, created)
  ELSE Dispatched(op, format, "single", IF disk.exists THEN NoError ELSE OsError,
                  TRUE, created)

\* list_archive that opens the archive before it matches on the format
list_archive_dispatch_opens_first(path, features, disk) ==
  LET format == detect(path) IN
  IF format = "None"
  THEN Dispatched("list", format, "none", Unrecognised, FALSE, FALSE)
  ELSE IF format \in OptionalFormats
  THEN IF format \in features
       THEN Dispatched("list", format, "backend",
                       IF disk.exists THEN NoError ELSE CannotOpen, TRUE, FALSE)
       ELSE Dispatched("list", format, "fallback",
                       IF disk.exists THEN NotCompiled(format) ELSE OsError,
                       TRUE, FALSE)
  ELSE common_arm("list", format, disk, FALSE)

\* list_archive: detect, then the match on the format
list_archive_dispatch(path, features, disk) ==
  LET format == detect(path) IN
  IF format = "None"
  THEN Dispatched("list", format, "none", Unrecognised, FALSE, FALSE)
  ELSE IF format \in OptionalFormats
  THEN IF format \in features
       THEN Dispatched("list", format, "backend",
                       IF disk.exists THEN NoError ELSE CannotOpen, TRUE, FALSE)
       ELSE Dispatched("list", format, "fallback", NotCompiled(format), FALSE, FALSE)
  ELSE common_arm("list", format, disk, FALSE)

\* read_archive_file: detect, then the match on the format, which has no
\* arm for an optional format whose feature is off
read_archive_file_dispatch(path, features, disk) ==
  LET format == detect(path) IN
  IF format = "None"
  THEN Dispatched("read", format, "none", Unrecognised, FALSE, FALSE)
  ELSE IF format \in OptionalFormats
  THEN IF format \in features
       THEN Dispatched("read", format, "backend",
                       IF disk.exists THEN NoError ELSE CannotOpen, TRUE, FALSE)
       ELSE Dispatched("read", format, "no arm", NoMatchArm(format), FALSE, FALSE)
  ELSE common_arm("read", format, disk, FALSE)

\* extract_archive that opens the archive before it creates the destination
extract_archive_dispatch_opens_first(path, features, disk) ==
  LET format == detect(path) IN
  IF format = "None"
  THEN Dispatched("extract", format, "none", Unrecognised, FALSE, FALSE)
  ELSE IF format \in OptionalFormats
  THEN IF format \in features
       THEN Dispatched("extract", format, "backend",
                       IF disk.exists THEN NoError ELSE OsError, TRUE, disk.exists)
       ELSE Dispatched("extract", format, "no arm", NoMatchArm(format), FALSE, FALSE)
  ELSE common_arm("extract", format, disk, disk.exists)

\* extract_archive that creates the destination before it detects the format
extract_archive_dispatch_creates_first(path, features, disk) ==
  LET format == detect(path) IN
  IF format = "None"
  THEN Dispatched("extract", format, "none", Unrecognised, FALSE, TRUE)
  ELSE IF format \in OptionalFormats
  THEN IF format \in features
       THEN Dispatched("extract", format, "backend",
                       IF disk.exists THEN NoError ELSE OsError, TRUE, TRUE)
       ELSE Dispatched("extract", format, "no arm", NoMatchArm(format), FALSE, FALSE)
  ELSE common_arm("extract", format, disk, TRUE)

\* extract_archive: detect, create_dir_all(destination), then the match on
\* the format, which has no arm for an optional format whose feature is off;
\* the extract_* functions of the backends return the error of File::open
\* as it is
extract_archive_dispatch(path, features, disk) ==
  LET format == detect(path) IN
  IF format = "None"
  THEN Dispatched("extract", format, "none", Unrecognised, FALSE, FALSE)
  ELSE IF format \in OptionalFormats
  THEN IF format \in features
       THEN Dispatched("extract", format, "backend",
                       IF disk.exists THEN NoError ELSE OsError, TRUE, TRUE)
       ELSE Dispatched("extract", format, "no arm", NoMatchArm(format), FALSE, FALSE)
  ELSE common_arm("extract", format, disk, TRUE)

\* body of the inner loop of list_cab for one file record: nothing is
\* inserted for a record that lies deeper than one segment
list_cab_entry(seen, rec, parent) ==
  LET name == normalise_inner(rec.name) IN
  IF name = <<>> THEN seen
  ELSE IF ~is_under_parent(name, parent) \/ name = parent THEN seen
  ELSE
    LET child_path == direct_child_path(name, parent)
        child_name == rsplit_first(child_path)
    IN  IF child_path = name
        THEN or_insert_with(seen, child_path,
               ArchiveEntry(child_name, child_path, "File", rec.size,
                            rec.compressed_size, 0, rec.compression))
        ELSE seen

RECURSIVE list_cab_seen(_, _)
\* the map `seen` of list_cab after its loops
list_cab_seen(recs, parent) ==
  IF recs = <<>> THEN EmptyMap
  ELSE list_cab_entry(list_cab_seen(SubSeq(recs, 1, Len(recs) - 1), parent),
                      recs[Len(recs)], parent)

RECURSIVE sort_insert_by_name(_, _)
\* insert e into a sequence sorted by name, behind the elements not greater
sort_insert_by_name(sorted, e) ==
  IF sorted = <<>> THEN <<e>>
  ELSE IF str_lt(e.name, Head(sorted).name) THEN <<e>> \o sorted
  ELSE <<Head(sorted)>> \o sort_insert_by_name(Tail(sorted), e)

RECURSIVE sort_by_name(_)
\* entries.sort_by(|a, b| a.name.cmp(&b.name)) of list_cab
sort_by_name(entries) ==
  IF entries = <<>> THEN <<>>
  ELSE sort_insert_by_name(sort_by_name(SubSeq(entries, 1, Len(entries) - 1)),
                           entries[Len(entries)])

\* the ArchiveListing list_cab returns for one collection order of the map
CabListing(inner_path, values) ==
  LET entries == sort_by_name(values) IN
  [ inner_path |-> normalise_inner(inner_path),
    format     |-> as_str("Cab"),
    entries    |-> entries,
    total_size |-> total_size(entries) ]

\* the single-file listing without the compressed size
single_file_listing_no_compressed_size(format, stem, file_size) ==
  [ inner_path |-> <<>>,
    format     |-> as_str(format),
    entries    |-> << ArchiveEntry(stem, stem, "File", file_size, 0, 0,
                                   as_str(format)) >>,
    total_size |-> file_size ]

\* the listing of a single-file compressed archive: one File entry named
\* after the stem, sized to the length of the archive file
single_file_listing(format, stem, file_size) ==
  [ inner_path |-> <<>>,
    format     |-> as_str(format),
    entries    |-> << ArchiveEntry(stem, stem, "File", file_size, file_size, 0,
                                   as_str(format)) >>,
    total_size |-> file_size ]

(***************************************************************************)
(* The state machine.  An archive is fixed at the start; a caller then     *)
(* lists it, reads from it, or extracts it record by record into the       *)
(* destination, and may read again after a finished extraction.  The calls *)
(* are list_archive, read_archive_file and extract_archive of archive.rs,  *)
(* which main.rs calls for LIST_ARCHIVE, READ_ARCHIVE_FILE and             *)
(* EXTRACT_ARCHIVE.                                                        *)
(***************************************************************************)
VARIABLES
  fmt,          \* the format ArchiveFormat::detect found for the archive
  records,      \* the stored records, in the order the backend yields them
  archive_path, \* the path of the archive file
  features,     \* the optional formats whose backend is compiled in
  disk,         \* the archive file: [exists, len, stream]
  dispatch,     \* how far the dispatcher of the last call got
  list_call,    \* [done, inner_path]: the list call made, if any
  listing,      \* the ArchiveListing it returned
  relisting,    \* [done, listing]: the same list call made once more
  read_call,    \* [done, inner_path]: the read call made, if any
  read_result,  \* what it returned
  ext,          \* the extract call: status, selection, loop index, `extracted`
  fs,           \* what exists below the destination
  written,      \* the records the extract loop wrote a file or directory for
  norm,         \* normalise_inner on its own: [stage, input, once, twice]
  procs,        \* the concurrent list and read calls, each with its locals
  jobs          \* two extract calls that write into the one destination `fs`

\* what no call changes
archive == <<fmt, records, archive_path, features, disk>>

\* what the calls on one archive work with
call_vars == <<dispatch, list_call, listing, relisting, read_call, read_result,
               ext, fs, written>>

\* what belongs to the other specifications
aside == <<norm, procs, jobs>>

vars == <<archive, call_vars, aside>>

\* the selections a caller extracts with
Selections ==
  { <<>>,
    << <<"a", "/", "B">> >>,
    << <<"\\", "a">> >>,
    << <<"/">> >>,
    << <<".">> >>,
    << <<"B">>, <<"a", "/", "b">> >> }

NoCall == [done |-> FALSE, inner_path |-> <<>>]

\* as_str of the detected format
Label(format) == IF format = "None" THEN "none" ELSE as_str(format)

\* no call yet
Idle ==
  /\ dispatch = Dispatched("", "None", "none", NoError, FALSE, FALSE)
  /\ list_call = NoCall
  /\ listing = ArchiveListing(fmt, <<>>, <<>>)
  /\ relisting = [done |-> FALSE, listing |-> ArchiveListing(fmt, <<>>, <<>>)]
  /\ read_call = NoCall
  /\ read_result = NotFound
  /\ ext = [status |-> "idle", inner_paths |-> <<>>, i |-> 0, extracted |-> <<>>]
  /\ fs = EmptyMap
  /\ written = {}

\* normalise_inner has not been applied
NoNorm == [stage |-> 0, input |-> <<>>, once |-> <<>>, twice |-> <<>>]

\* nothing of the other specifications has happened
Aside == norm = NoNorm /\ procs = <<>> /\ jobs = <<>>

\* a Zip or a Tar archive of up to MaxRecords records on disk
Init ==
  /\ fmt \in Formats
  /\ \E n \in 0..MaxRecords : \E r \in ArchivesOf(fmt, n) :
       records = [i \in 1..n |-> Record(i, r[i].name, r[i].is_dir)]
  /\ archive_path = IF fmt = "zip" THEN <<"a", ".", "z", "i", "p">>
                    ELSE <<"a", ".", "t", "a", "r">>
  /\ features = {}
  /\ disk = [exists |-> TRUE, len |-> 1, stream |-> Bytes(1, 1)]
  /\ Idle
  /\ Aside

\* the listings list_archive may return once its dispatcher has succeeded;
\* the order in which the map yields its values is not determined
Listings(d, inner_path) ==
  IF d.arm = "single"
  THEN { single_file_listing(d.format, file_stem(archive_path), disk.len) }
  ELSE IF d.arm = "backend"
  THEN { CabListing(inner_path, values) :
           values \in into_values(list_cab_seen(records, normalise_inner(inner_path))) }
  ELSE { ArchiveListing(as_str(d.format), inner_path, values) :
           values \in into_values(list_seen(as_str(d.format), records,
                                            normalise_inner(inner_path))) }

\* list_archive(archive_path, inner_path)
ListArchive(inner_path) ==
  /\ ~list_call.done /\ ~read_call.done /\ ext.status = "idle"
  /\ LET d == list_archive_dispatch(archive_path, features, disk)
     IN  /\ (d.arm = "backend" /\ d.error = NoError) => d.format = "Cab"
         /\ dispatch' = d
         /\ listing' \in IF d.error # NoError THEN {listing}
                         ELSE Listings(d, inner_path)
  /\ list_call' = [done |-> TRUE, inner_path |-> inner_path]
  /\ UNCHANGED <<archive, aside, relisting, read_call, read_result, ext, fs, written>>

\* list_archive called again with the same arguments
ListAgain ==
  /\ list_call.done /\ ~relisting.done
  /\ LET d == list_archive_dispatch(archive_path, features, disk)
     IN  /\ dispatch' = d
         /\ \E l \in IF d.error # NoError THEN {relisting.listing}
                     ELSE Listings(d, list_call.inner_path) :
              relisting' = [done |-> TRUE, listing |-> l]
  /\ UNCHANGED <<archive, aside, list_call, listing, read_call, read_result, ext, fs, written>>

\* read_archive_file(archive_path, inner_path)
ReadArchive(inner_path) ==
  /\ ~list_call.done /\ ~read_call.done /\ ext.status \in {"idle", "ok"}
  /\ LET d == read_archive_file_dispatch(archive_path, features, disk)
         r == IF d.error # NoError THEN NotFound
              ELSE IF d.arm = "single"
              THEN [ok |-> TRUE, index |-> 0, data |-> disk.stream]
              ELSE read_archive_file(as_str(d.format), records, inner_path)
     IN  /\ (d.arm = "backend" /\ d.error = NoError) => d.format = "Cab"
         /\ read_result' = r
         /\ dispatch' = IF d.error = NoError /\ ~r.ok
                        THEN [d EXCEPT !.error = EntryNotFound] ELSE d
  /\ read_call' = [done |-> TRUE, inner_path |-> inner_path]
  /\ UNCHANGED <<archive, aside, list_call, listing, relisting, ext, fs, written>>

\* extract_archive up to the loop of extract_zip / extract_tar /
\* extract_cab: create_dir_all(destination), open; the whole of it for a
\* single file
ExtractArchive(inner_paths) ==
  /\ ~list_call.done /\ ~read_call.done /\ ext.status = "idle"
  /\ LET d       == extract_archive_dispatch(archive_path, features, disk)
         made    == IF d.created THEN create_dir_all(fs, <<>>).fs ELSE fs
         stem    == file_stem(archive_path)
         created == file_create(made, <<stem>>)
     IN  /\ (d.arm = "backend" /\ d.error = NoError) => d.format = "Cab"
         /\ dispatch' = d
         /\ IF d.error # NoError
            THEN /\ fs' = made
                 /\ ext' = [status |-> "err", inner_paths |-> inner_paths, i |-> 0,
                            extracted |-> <<>>]
            ELSE IF d.arm = "single"
            THEN /\ fs' = io_copy(created.fs, <<stem>>, disk.stream)
                 /\ ext' = [status |-> "ok", inner_paths |-> inner_paths, i |-> 0,
                            extracted |-> <<out_path(stem)>>]
            ELSE /\ fs' = made
                 /\ ext' = [status |-> "running", inner_paths |-> inner_paths,
                            i |-> 1, extracted |-> <<>>]
  /\ UNCHANGED <<archive, aside, list_call, listing, relisting, read_call, read_result,
                 written>>

\* one turn of the loop of extract_zip / extract_tar / extract_cab
ExtractEntry ==
  /\ ext.status = "running" /\ ext.i <= Len(records)
  /\ LET r == IF fmt = "cab"
              THEN extract_cab_entry(records, ext.i, ext.inner_paths, fs,
                                     ext.extracted)
              ELSE extract_entry(fmt, records[ext.i], ext.inner_paths, fs,
                                 ext.extracted)
     IN  /\ fs' = r.fs
         /\ written' = IF r.wrote THEN written \cup {ext.i} ELSE written
         /\ ext' = IF r.failed
                   THEN [ext EXCEPT !.status = "err"]
                   ELSE [ext EXCEPT !.i = ext.i + 1, !.extracted = r.extracted]
  /\ UNCHANGED <<archive, aside, dispatch, list_call, listing, relisting, read_call,
                 read_result>>

\* the archive cannot be read on.  `zip.by_index(i)?` and `entry_result?`
\* return the error before anything is written for the record;
\* `entry_result?` of extract_tar fails as well on the turn after the last
\* record, when the archive ends before its end-of-archive blocks;
\* `archive.read_file(..)?` of extract_cab returns the error once the
\* parent directories of the record are made; `ZipArchive::new(file)?`
\* and `Cabinet::new(file)?` return it before the first turn
ExtractReadFails ==
  /\ ext.status = "running"
  /\ \/ /\ ext.i <= Len(records)
        /\ fmt # "cab"
        /\ fs' = fs
     \/ /\ ext.i <= Len(records)
        /\ fmt = "cab"
        /\ LET path == components(normalise_inner(records[ext.i].name))
               made == IF path = <<>> THEN [ok |-> TRUE, fs |-> fs]
                       ELSE create_dir_all(fs, SubSeq(path, 1, Len(path) - 1))
           IN  /\ ~extract_skips(fmt, records[ext.i], ext.inner_paths)
               /\ made.ok
               /\ fs' = made.fs
     \/ /\ ext.i = Len(records) + 1
        /\ fmt \notin {"zip", "cab"}
        /\ fs' = fs
     \/ /\ ext.i = 1
        /\ fmt \in {"zip", "cab"}
        /\ fs' = fs
  /\ ext' = [ext EXCEPT !.status = "err"]
  /\ UNCHANGED <<archive, aside, dispatch, list_call, listing, relisting, read_call,
                 read_result, written>>

\* `io::copy(&mut entry, &mut f)?` fails, or the archive ends before the
\* next header: the file was created (and truncated) by File::create and
\* holds the bytes that were copied until then, none, some or all of them
ExtractCopyFails ==
  /\ ext.status = "running" /\ ext.i <= Len(records)
  /\ fmt # "cab"
  /\ ~extract_skips(fmt, records[ext.i], ext.inner_paths)
  /\ ~extract_is_dir(fmt, records[ext.i])
  /\ LET path == components(normalise_inner(records[ext.i].name))
         made == IF path = <<>> THEN [ok |-> TRUE, fs |-> fs]
                 ELSE create_dir_all(fs, SubSeq(path, 1, Len(path) - 1))
         file == file_create(made.fs, path)
         data == records[ext.i].data
     IN  /\ made.ok /\ file.ok
         /\ \E n \in 0..Len(data) : fs' = io_copy(file.fs, path, SubSeq(data, 1, n))
  /\ ext' = [ext EXCEPT !.status = "err"]
  /\ UNCHANGED <<archive, aside, dispatch, list_call, listing, relisting, read_call,
                 read_result, written>>

\* the loop is over: Ok(extracted)
ExtractReturn ==
  /\ ext.status = "running" /\ ext.i > Len(records)
  /\ ext' = [ext EXCEPT !.status = "ok"]
  /\ UNCHANGED <<archive, aside, dispatch, list_call, listing, relisting, read_call,
                 read_result, fs, written>>

Next ==
  \/ \E p \in InnerPaths : ListArchive(p)
  \/ ListAgain
  \/ \E p \in InnerPaths : ReadArchive(p)
  \/ \E s \in Selections : ExtractArchive(s)
  \/ ExtractEntry
  \/ ExtractReadFails
  \/ ExtractCopyFails
  \/ ExtractReturn

Spec == Init /\ [][Next]_vars

(***************************************************************************)
(* The dispatcher over every kind of name: the archive file is named by a  *)
(* stem and an ending, exists or not, and the build has some of the        *)
(* optional backends.  Of the optional formats whose backend is compiled   *)
(* in the model has the cabinet; an archive of the other five is among the *)
(* initial states only when its file is missing, where every call ends at  *)
(* File::open.                                                             *)
(***************************************************************************)
NameStems == { <<"a">>, <<>>, <<"d", "/", "a">> }

NameEndings ==
  { <<".", "t", "a", "r", ".", "g", "z">>,
    <<".", "t", "g", "z">>,
    <<".", "t", "a", "r", ".", "b", "z", "2">>,
    <<".", "t", "b", "z", "2">>,
    <<".", "t", "b", "z">>,
    <<".", "t", "a", "r", ".", "x", "z">>,
    <<".", "t", "x", "z">>,
    <<".", "t", "a", "r", ".", "z", "s", "t">>,
    <<".", "t", "a", "r", ".", "z", "s", "t", "d">>,
    <<".", "t", "z", "s", "t">>,
    <<".", "t", "a", "r">>,
    <<".", "z", "i", "p">>,
    <<".", "j", "a", "r">>,
    <<".", "w", "a", "r">>,
    <<".", "e", "a", "r">>,
    <<".", "a", "p", "k">>,
    <<".", "d", "o", "c", "x">>,
    <<".", "x", "l", "s", "x">>,
    <<".", "p", "p", "t", "x">>,
    <<".", "o", "d", "t">>,
    <<".", "o", "d", "s">>,
    <<".", "o", "d", "p">>,
    <<".", "g", "z">>,
    <<".", "b", "z", "2">>,
    <<".", "x", "z">>,
    <<".", "z", "s", "t">>,
    <<".", "z", "s", "t", "d">>,
    <<".", "7", "z">>,
    <<".", "r", "a", "r">>,
    <<".", "c", "a", "b">>,
    <<".", "a", "r", "j">>,
    <<".", "l", "z", "h">>,
    <<".", "l", "h", "a">>,
    <<".", "a", "c", "e">>,
    <<".", "T", "A", "R", ".", "G", "Z">>,
    <<".", "Z", "i", "p">>,
    <<".", "R", "A", "R">>,
    <<".", "t", "a", "r", ".", "G", "Z">>,
    <<".", "G", "z">>,
    <<".", "t", "x", "t">>,
    <<>>,
    <<".", "g", "z", ".", "t", "x", "t">>,
    <<"g", "z">>,
    <<".", "t", "a", "r", ".", "t", "x", "t">>,
    <<"t", "a", "r">> }

ArchiveNames == { stem \o ending : stem \in NameStems, ending \in NameEndings }

FeatureSets == { {}, {"Rar", "Cab"}, OptionalFormats }

Disks ==
  { [exists |-> FALSE, len |-> 0, stream |-> <<>>],
    [exists |-> TRUE, len |-> 1, stream |-> Bytes(2, 2)],
    [exists |-> TRUE, len |-> 2, stream |-> Bytes(1, 1)] }

\* the records of the Zip and Tar archives behind those names; the last
\* two hold a directory record whose size field is not zero and a file
\* record named ../a
SampleArchives ==
  { <<>>,
    << Record(1, <<"a">>, FALSE) >>,
    << Record(1, <<"a", "/">>, TRUE), Record(2, <<"a", "/", "B">>, FALSE) >>,
    << [Record(1, <<"a", "/">>, TRUE) EXCEPT
          !.size = 1, !.compressed_size = 1, !.data = Bytes(1, 1)] >>,
    << Record(1, <<".", ".", "/", "a">>, FALSE) >> }

\* the file records of the cabinets behind the .cab names
CabArchives ==
  { <<>>,
    << CabRecord(1, <<"a", "/", "B">>) >>,
    << CabRecord(1, <<"a">>), CabRecord(2, <<"a", "\\", "B">>) >> }

DispatchInit ==
  /\ archive_path \in ArchiveNames
  /\ features \in FeatureSets
  /\ fmt = Label(detect(archive_path))
  /\ disk \in Disks
  /\ (detect(archive_path) \in features /\ disk.exists) => detect(archive_path) = "Cab"
  /\ records \in IF ~disk.exists THEN {<<>>}
                 ELSE IF detect(archive_path) \in {"Zip"} \cup TarFormats
                 THEN SampleArchives
                 ELSE IF detect(archive_path) = "Cab" /\ "Cab" \in features
                 THEN CabArchives
                 ELSE {<<>>}
  /\ Idle
  /\ Aside

DispatchSpec == DispatchInit /\ [][Next]_vars

(***************************************************************************)
(* normalise_inner on its own, applied to every string of up to MaxLen     *)
(* characters, and once more to its result.                                *)
(***************************************************************************)
Alphabet == {"a", "/", "\\", "."}

Strings == UNION { [1..n -> Alphabet] : n \in 0..MaxLen }

\* an empty Zip archive that nothing is called on
Quiet ==
  /\ fmt = "zip"
  /\ records = <<>>
  /\ archive_path = <<"a", ".", "z", "i", "p">>
  /\ features = {}
  /\ disk = [exists |-> TRUE, len |-> 1, stream |-> Bytes(1, 1)]
  /\ Idle

NormaliseInit ==
  /\ Quiet
  /\ procs = <<>> /\ jobs = <<>>
  /\ \E x \in Strings : norm = [NoNorm EXCEPT !.input = x]

\* normalise_inner(p)
Normalise ==
  /\ norm.stage = 0
  /\ norm' = [norm EXCEPT !.stage = 1, !.once = normalise_inner(norm.input)]
  /\ UNCHANGED <<archive, call_vars, procs, jobs>>

\* normalise_inner applied to the string it returned
NormaliseAgain ==
  /\ norm.stage = 1
  /\ norm' = [norm EXCEPT !.stage = 2, !.twice = normalise_inner(norm.once)]
  /\ UNCHANGED <<archive, call_vars, procs, jobs>>

NormaliseNext == Normalise \/ NormaliseAgain

NormaliseSpec == NormaliseInit /\ [][NormaliseNext]_vars

(***************************************************************************)
(* Concurrent calls.  MaxCalls list and read calls, on archives of the     *)
(* shelf, run interleaved: a call opens its archive, a list call then      *)
(* takes the records one by one into its own map and returns, a read call  *)
(* looks its entry up and returns.                                         *)
(***************************************************************************)
\* the archives on disk
Shelf ==
  << [fmt |-> "zip",
      records |-> << Record(1, <<"a", "/", "B">>, FALSE), Record(2, <<"a">>, FALSE) >>],
     [fmt |-> "tar",
      records |-> << Record(1, <<"a", "/">>, TRUE), Record(2, <<"a", "/", "B">>, FALSE) >>],
     [fmt |-> "zip", records |-> << Record(1, <<"B">>, FALSE) >>] >>

\* the inner paths the concurrent calls ask for
CallPaths == { <<>>, <<"a">>, <<"a", "/", "B">> }

\* a call that has not started
NewCall(op, k, inner_path) ==
  [ op |-> op, k |-> k, inner_path |-> inner_path, pc |-> "start", i |-> 0,
    seen |-> EmptyMap, listing |-> ArchiveListing(Shelf[k].fmt, <<>>, <<>>),
    read |-> NotFound, overlapped |-> FALSE ]

ConcurrentInit ==
  /\ Quiet
  /\ norm = NoNorm /\ jobs = <<>>
  /\ procs \in [1..MaxCalls ->
                  { NewCall(op, k, inner_path) :
                      op \in {"list", "read"}, k \in 1..Len(Shelf),
                      inner_path \in CallPaths }]

\* the map of another call, as if `seen` were shared
seen_of_first(ps, p) == ps[1].seen

\* `let mut seen = HashMap::new()`: the map call p works with is its own
seen_of(ps, p) == ps[p].seen

\* another call is under way while p takes a step
Overlaps(p) == \E q \in DOMAIN procs : q # p /\ procs[q].pc = "loop"

\* the call opens the archive with a handle of its own
CallOpen(p) ==
  /\ procs[p].pc = "start"
  /\ procs' = [procs EXCEPT ![p].pc = "loop", ![p].i = 1, ![p].seen = EmptyMap,
                            ![p].overlapped = Overlaps(p)]
  /\ UNCHANGED <<archive, call_vars, norm, jobs>>

\* one turn of the loop of list_zip / list_tar_reader
ListStep(p) ==
  LET me     == procs[p]
      on     == Shelf[me.k]
      parent == normalise_inner(me.inner_path)
      seen   == seen_of(procs, p)
  IN  /\ me.op = "list" /\ me.pc = "loop" /\ me.i <= Len(on.records)
      /\ procs' = [procs EXCEPT
                     ![p].seen = IF on.fmt = "zip"
                                 THEN list_zip_entry(seen, on.records[me.i], parent)
                                 ELSE list_tar_entry(seen, on.records[me.i], parent,
                                                     on.fmt),
                     ![p].i = me.i + 1,
                     ![p].overlapped = me.overlapped \/ Overlaps(p)]
      /\ UNCHANGED <<archive, call_vars, norm, jobs>>

\* the loop is over: collect the map, sort, return the listing
ListReturn(p) ==
  LET me == procs[p]
      on == Shelf[me.k]
  IN  /\ me.op = "list" /\ me.pc = "loop" /\ me.i > Len(on.records)
      /\ \E values \in into_values(seen_of(procs, p)) :
           procs' = [procs EXCEPT
                       ![p].listing = ArchiveListing(on.fmt, me.inner_path, values),
                       ![p].pc = "done",
                       ![p].overlapped = me.overlapped \/ Overlaps(p)]
      /\ UNCHANGED <<archive, call_vars, norm, jobs>>

\* read_zip_file / read_tar_file on the call's own handle
ReadReturn(p) ==
  LET me == procs[p]
      on == Shelf[me.k]
  IN  /\ me.op = "read" /\ me.pc = "loop"
      /\ procs' = [procs EXCEPT
                     ![p].read = read_archive_file(on.fmt, on.records, me.inner_path),
                     ![p].pc = "done",
                     ![p].overlapped = me.overlapped \/ Overlaps(p)]
      /\ UNCHANGED <<archive, call_vars, norm, jobs>>

ConcurrentNext ==
  \E p \in 1..MaxCalls :
    \/ CallOpen(p)
    \/ ListStep(p)
    \/ ListReturn(p)
    \/ ReadReturn(p)

ConcurrentSpec == ConcurrentInit /\ [][ConcurrentNext]_vars

(***************************************************************************)
(* Two extract calls, each with an empty selection on an archive of its    *)
(* own, run interleaved into the one destination.  A step of a call is one *)
(* of the system calls of a turn of its loop: making the directories,      *)
(* File::create, a write of io::copy through the call's own handle, and    *)
(* the push that ends the turn.  No lock is held between them.             *)
(***************************************************************************)
\* the archives the two calls extract
RaceArchives ==
  << [fmt |-> "zip",
      records |-> << Record(1, <<"a">>, FALSE), Record(2, <<"B">>, FALSE) >>],
     [fmt |-> "zip",
      records |-> << Record(1, <<"B">>, FALSE), Record(2, <<"a">>, FALSE) >>],
     [fmt |-> "tar",
      records |-> << Record(1, <<"a", "/", "B">>, FALSE) >>] >>

RaceInit ==
  /\ Quiet
  /\ norm = NoNorm /\ procs = <<>>
  /\ jobs \in [1..2 -> { [k |-> k, pc |-> "start", i |-> 0, off |-> 0,
                            extracted |-> <<>>] :
                           k \in 1..Len(RaceArchives) }]

\* what a call of the race leaves alone
race_unchanged == <<archive, dispatch, list_call, listing, relisting, read_call,
                    read_result, ext, written, norm, procs>>

\* extract_archive up to the loop: create_dir_all(destination), open
JobOpen(j) ==
  /\ jobs[j].pc = "start"
  /\ fs' = create_dir_all(fs, <<>>).fs
  /\ jobs' = [jobs EXCEPT ![j].pc = "loop", ![j].i = 1]
  /\ UNCHANGED race_unchanged

\* a turn of the loop of extract_zip / extract_tar up to File::create: the
\* record is passed over, or its directory is made, or the parent
\* directories of its file are
JobEntry(j) ==
  LET me   == jobs[j]
      on   == RaceArchives[me.k]
      rec  == on.records[me.i]
      path == components(normalise_inner(rec.name))
  IN  /\ me.pc = "loop" /\ me.i <= Len(on.records)
      /\ IF extract_skips(on.fmt, rec, <<>>)
         THEN /\ fs' = fs
              /\ jobs' = [jobs EXCEPT ![j].i = me.i + 1]
         ELSE IF extract_is_dir(on.fmt, rec)
         THEN LET made == create_dir_all(fs, path)
              IN  /\ fs' = made.fs
                  /\ jobs' = IF made.ok THEN [jobs EXCEPT ![j].i = me.i + 1]
                             ELSE [jobs EXCEPT ![j].pc = "err"]
         ELSE LET made == IF path = <<>> THEN [ok |-> TRUE, fs |-> fs]
                          ELSE create_dir_all(fs, SubSeq(path, 1, Len(path) - 1))
              IN  /\ fs' = made.fs
                  /\ jobs' = IF made.ok THEN [jobs EXCEPT ![j].pc = "create"]
                             ELSE [jobs EXCEPT ![j].pc = "err"]
      /\ UNCHANGED race_unchanged

\* File::create(&out): the file exists and is empty, whatever another call
\* has written to it
JobCreate(j) ==
  LET me   == jobs[j]
      rec  == RaceArchives[me.k].records[me.i]
      file == file_create(fs, components(normalise_inner(rec.name)))
  IN  /\ me.pc = "create"
      /\ fs' = file.fs
      /\ jobs' = IF file.ok THEN [jobs EXCEPT ![j].pc = "copy", ![j].off = 0]
                 ELSE [jobs EXCEPT ![j].pc = "err"]
      /\ UNCHANGED race_unchanged

\* one write of io::copy: the next bytes of the record, as many as the
\* read before it gave, at the position of the call's own handle
JobCopy(j) ==
  LET me   == jobs[j]
      rec  == RaceArchives[me.k].records[me.i]
      path == components(normalise_inner(rec.name))
  IN  /\ me.pc = "copy" /\ me.off < Len(rec.data)
      /\ \E n \in 1..(Len(rec.data) - me.off) :
           /\ fs' = write_at(fs, path, me.off,
                             SubSeq(rec.data, me.off + 1, me.off + n))
           /\ jobs' = [jobs EXCEPT ![j].off = me.off + n]
      /\ UNCHANGED race_unchanged

\* io::copy has returned: extracted.push(..), the turn is over
JobPush(j) ==
  LET me  == jobs[j]
      rec == RaceArchives[me.k].records[me.i]
  IN  /\ me.pc = "copy" /\ me.off = Len(rec.data)
      /\ jobs' = [jobs EXCEPT
                    ![j].pc = "loop", ![j].i = me.i + 1, ![j].off = 0,
                    ![j].extracted =
                       Append(me.extracted, out_path(normalise_inner(rec.name)))]
      /\ UNCHANGED <<race_unchanged, fs>>

\* the loop is over: Ok(extracted)
JobReturn(j) ==
  /\ jobs[j].pc = "loop" /\ jobs[j].i > Len(RaceArchives[jobs[j].k].records)
  /\ jobs' = [jobs EXCEPT ![j].pc = "done"]
  /\ UNCHANGED <<race_unchanged, fs>>

RaceNext ==
  \E j \in 1..2 :
    \/ JobOpen(j)
    \/ JobEntry(j)
    \/ JobCreate(j)
    \/ JobCopy(j)
    \/ JobPush(j)
    \/ JobReturn(j)

RaceSpec == RaceInit /\ [][RaceNext]_vars

(***************************************************************************)
(* Vocabulary of the claims.                                               *)
(***************************************************************************)
\* the normalised path of the i-th stored record
PathOf(i) == normalise_inner(records[i].name)

\* is_descendant(entry, parent) of the specification
is_descendant(entry, parent) ==
  \/ parent = <<>>
  \/ entry = parent
  \/ starts_with(entry, parent \o <<"/">>)

\* the parent a finished list call listed
ListedParent == normalise_inner(list_call.inner_path)

\* the inner paths of the returned entries
ListedKeys == { listing.entries[k].inner_path : k \in 1..Len(listing.entries) }

\* is the i-th record a directory record, in the eyes of the backend?
IsDirRecord(i) == extract_is_dir(fmt, records[i])

\* the records a Tar listing or extraction passes over as the "." entry
IsTarDot(i) == fmt # "zip" /\ PathOf(i) = <<".">>

\* the records that contribute a child key to a listing of `parent`
Contributors(parent) ==
  { i \in 1..Len(records) :
      PathOf(i) # <<>> /\ PathOf(i) # parent /\ is_descendant(PathOf(i), parent) }

\* the returned entries are keyed uniquely and lie one segment below parent
ListingShape ==
  /\ \A j, k \in 1..Len(listing.entries) :
       j # k => listing.entries[j].inner_path # listing.entries[k].inner_path
  /\ \A k \in 1..Len(listing.entries) :
       direct_child_path(listing.entries[k].inner_path, ListedParent)
         = listing.entries[k].inner_path

(***************************************************************************)
(* C1: the keys of a listing are the direct-child keys of the records in   *)
(* the listed subtree.                                                     *)
(***************************************************************************)
\* C1 as stated: the inner paths of the entries of a listing are exactly
\* the direct-child keys of all records with a non-empty normalised name
\* in the parent's subtree other than the parent, each once, and every
\* entry is its own direct-child key.
C1_AllRecordsListed ==
  list_call.done =>
    /\ ListedKeys = { direct_child_path(PathOf(i), ListedParent) :
                        i \in Contributors(ListedParent) }
    /\ ListingShape

\* C1 as amended: the same, where a Tar-family listing also passes over
\* the records whose normalised name is ".".
C1_ListedKeys ==
  list_call.done =>
    /\ ListedKeys = { direct_child_path(PathOf(i), ListedParent) :
                        i \in { c \in Contributors(ListedParent) : ~IsTarDot(c) } }
    /\ ListingShape

\* a Tar listing below the root that passed over a "." record and
\* collapsed a deeper record into a direct child
C1_Witness ==
  /\ list_call.done
  /\ fmt = "tar"
  /\ ListedParent # <<>>
  /\ \E i \in 1..Len(records) : IsTarDot(i)
  /\ \E i \in Contributors(ListedParent) :
       direct_child_path(PathOf(i), ListedParent) # PathOf(i)
  /\ listing.entries # <<>>

(***************************************************************************)
(* C2: directories are synthesised for the segments of stored file paths.  *)
(***************************************************************************)
RECURSIVE JoinSegments(_)
\* the segments joined with "/"
JoinSegments(segs) ==
  IF segs = <<>> THEN <<>>
  ELSE IF Len(segs) = 1 THEN segs[1]
  ELSE segs[1] \o <<"/">> \o JoinSegments(Tail(segs))

\* the archive stores file records only, none of them below another
OnlyFileRecords ==
  /\ \A i \in 1..Len(records) : ~IsDirRecord(i) /\ PathOf(i) # <<>>
  /\ \A i, j \in 1..Len(records) :
       ~starts_with(PathOf(j), PathOf(i) \o <<"/">>)

\* the entries of the listing with a given name
EntriesNamed(name) ==
  { k \in 1..Len(listing.entries) : listing.entries[k].name = name }

\* C2: in an archive of file records only, for every stored file path p
\* and every proper segment-prefix q of p, the listing of q holds exactly
\* one entry for the next segment of p, a Directory unless that segment
\* is the last one of p, and then a File.
C2_Synthesis ==
  (list_call.done /\ OnlyFileRecords) =>
    \A i \in 1..Len(records) :
      LET segs == split_slash(PathOf(i)) IN
      \A n \in 0..(Len(segs) - 1) :
        list_call.inner_path = JoinSegments(SubSeq(segs, 1, n)) =>
          /\ Cardinality(EntriesNamed(segs[n + 1])) = 1
          /\ \A k \in EntriesNamed(segs[n + 1]) :
               listing.entries[k].entry_type =
                 IF n + 1 < Len(segs) THEN "Directory" ELSE "File"

(***************************************************************************)
(* C3: an explicit record wins over a synthesised directory.               *)
(***************************************************************************)
\* the records a listing of `parent` does not pass over
Listed(parent) == { i \in Contributors(parent) : ~IsTarDot(i) }

\* the entry the listing code builds for record i when it is alone
ExplicitEntry(i, parent) ==
  list_seen(fmt, <<records[i]>>, parent)[PathOf(i)]

\* C3: when the records hold an explicit record for a child key K and a
\* deeper record that implies K, the entry listed for K carries the type
\* and the metadata of an explicit record, whatever the order of the two.
C3_ExplicitPrecedence ==
  list_call.done =>
    \A i, j \in Listed(ListedParent) :
      LET key == direct_child_path(PathOf(j), ListedParent) IN
      (PathOf(i) = key /\ PathOf(j) # key) =>
        \E k \in 1..Len(listing.entries) : \E e \in Listed(ListedParent) :
          /\ PathOf(e) = key
          /\ listing.entries[k] = ExplicitEntry(e, ListedParent)

(***************************************************************************)
(* C4: the order of a listing.                                             *)
(***************************************************************************)
\* x comes strictly before y in the order the specification gives:
\* directories first, then names without regard to case, then names
SpecifiedBefore(x, y) ==
  \/ x.entry_type = "Directory" /\ y.entry_type = "File"
  \/ /\ x.entry_type = y.entry_type
     /\ \/ str_lt(to_lowercase(x.name), to_lowercase(y.name))
        \/ /\ to_lowercase(x.name) = to_lowercase(y.name)
           /\ str_lt(x.name, y.name)

\* C4: every listing is sorted, directories before files and within each
\* group by case-insensitive name, ties broken by the original name.
C4_Sorted ==
  list_call.done =>
    \A j, k \in 1..Len(listing.entries) :
      j < k => ~SpecifiedBefore(listing.entries[k], listing.entries[j])

(***************************************************************************)
(* C5: no entry without a name.                                            *)
(***************************************************************************)
\* C5: no listing holds an entry whose name is the empty string, whatever
\* the stored names and the requested inner path.
C5_NoEmptyName ==
  list_call.done =>
    \A k \in 1..Len(listing.entries) : listing.entries[k].name # <<>>

(***************************************************************************)
(* C6: the selection decides which records extract writes.                 *)
(***************************************************************************)
\* the selection is empty, or a target is the record's path or above it
Selected(i) ==
  \/ ext.inner_paths = <<>>
  \/ \E k \in 1..Len(ext.inner_paths) :
       LET t == normalise_inner(ext.inner_paths[k])
       IN  PathOf(i) = t \/ starts_with(PathOf(i), t \o <<"/">>)

\* C6 as stated: a finished extract has written a record with a non-empty
\* normalised path if and only if the selection is empty or selects it.
C6_EverySelectedWritten ==
  ext.status = "ok" =>
    \A i \in 1..Len(records) :
      PathOf(i) # <<>> => (i \in written <=> Selected(i))

\* C6 as amended: the same for every record with a non-empty normalised
\* path other than the "." record of a Tar-family archive, which extract
\* never writes.
C6_Selection ==
  ext.status = "ok" =>
    \A i \in 1..Len(records) :
      /\ (PathOf(i) # <<>> /\ ~IsTarDot(i)) => (i \in written <=> Selected(i))
      /\ IsTarDot(i) => i \notin written

\* an extract of the selection ["a/B"] wrote the record a/B/a and left
\* the record a/Ba alone
C6_Witness ==
  /\ ext.status = "ok"
  /\ ext.inner_paths = << <<"a", "/", "B">> >>
  /\ \E i \in written : PathOf(i) = <<"a", "/", "B", "/", "a">>
  /\ \E j \in 1..Len(records) :
       j \notin written /\ PathOf(j) = <<"a", "/", "B", "a">>

(***************************************************************************)
(* C7: the list extract returns.                                           *)
(***************************************************************************)
\* the paths in the returned list
ReturnedPaths == { ext.extracted[k] : k \in 1..Len(ext.extracted) }

RECURSIVE WrittenFiles(_)
\* the output paths of the file records written among the first n records
WrittenFiles(n) ==
  IF n = 0 THEN <<>>
  ELSE WrittenFiles(n - 1) \o
         (IF n \in written /\ ~IsDirRecord(n) THEN <<out_path(PathOf(n))>> ELSE <<>>)

\* C7 as stated: the list a successful extract returns holds the path
\* destination/normalised_path of every record it materialised, directory
\* records included, and no other path.
C7_EveryWrittenPathReturned ==
  ext.status = "ok" =>
    ReturnedPaths = { out_path(PathOf(i)) : i \in written }

\* C7 as amended: the list a successful extract returns holds, in archive
\* order, the path destination/normalised_path of every file record it
\* wrote, and nothing else; the directories it created are not listed.
C7_FilesReturned ==
  ext.status = "ok" => ext.extracted = WrittenFiles(Len(records))

\* a finished extract that created a directory record and wrote a file
C7_Witness ==
  /\ ext.status = "ok"
  /\ \E i \in written : IsDirRecord(i)
  /\ \E j \in written : ~IsDirRecord(j)
  /\ ext.extracted # <<>>

(***************************************************************************)
(* C8: extract, then read.                                                 *)
(***************************************************************************)
\* the length of the longest stored name: no listing descends deeper
LongestName ==
  IF records = <<>> THEN 0
  ELSE CHOOSE n \in { Len(records[i].name) : i \in 1..Len(records) } :
         \A i \in 1..Len(records) : Len(records[i].name) <= n

RECURSIVE ReachableFiles(_, _)
\* the inner paths of the File entries found by listing `parent` and,
\* up to `depth` levels down, the directories listed
ReachableFiles(parent, depth) ==
  LET seen    == list_seen(fmt, records, normalise_inner(parent))
      entries == { seen[k] : k \in DOMAIN seen }
  IN  { e.inner_path : e \in { x \in entries : x.entry_type = "File" } }
      \cup
      (IF depth = 0 THEN {}
       ELSE UNION { ReachableFiles(e.inner_path, depth - 1) :
                      e \in { x \in entries : x.entry_type = "Directory" } })

\* C8: after a successful extract of everything, every File entry that
\* listing reaches from the root is a file below the destination whose
\* content is what read returns for the entry's inner path.
C8_RoundTrip ==
  ( /\ ext.status = "ok"
    /\ ext.inner_paths = <<>>
    /\ read_call.done
    /\ read_call.inner_path \in ReachableFiles(<<>>, LongestName) ) =>
      /\ read_result.ok
      /\ is_file_at(fs, components(read_call.inner_path))
      /\ fs[components(read_call.inner_path)].data = read_result.data

(***************************************************************************)
(* C9: a failing extract leaves what it wrote.                             *)
(***************************************************************************)
\* where below the destination the i-th record is written
TargetOf(i) == components(PathOf(i))

\* the content of the last file record written to the place of record i
LastWritten(i) ==
  LET same == { j \in written : ~IsDirRecord(j) /\ TargetOf(j) = TargetOf(i) }
  IN  records[CHOOSE j \in same : \A k \in same : k <= j].data

\* C9 as stated: when extract fails at the k-th record, every file written
\* for the records before it is still there with its full content.
C9_FilesKeepContent ==
  ext.status = "err" =>
    \A i \in written :
      ~IsDirRecord(i) =>
        /\ is_file_at(fs, TargetOf(i))
        /\ fs[TargetOf(i)].data = LastWritten(i)

\* what a failed extract leaves of the records written before the k-th
FailedExtractKeeps ==
  ext.status = "err" =>
    /\ ext.i \in 1..(Len(records) + 1)
    /\ written \subseteq 1..(ext.i - 1)
    /\ \A i \in written :
         IF IsDirRecord(i) THEN is_dir_at(fs, TargetOf(i))
         ELSE /\ is_file_at(fs, TargetOf(i))
              /\ (ext.i > Len(records) \/ TargetOf(i) # TargetOf(ext.i)) =>
                   fs[TargetOf(i)].data = LastWritten(i)

\* C9 as amended: when extract fails at the k-th record, or for a Tar
\* archive at the read after the last record, the call ends in an error,
\* every directory and file written for the records before is still there,
\* each file with its full content unless the k-th record is written to
\* the same place (its failed write has truncated it and left none, some
\* or all of its own bytes); nothing is rolled back and no further record
\* is processed.
C9_NotTransactional ==
  /\ []FailedExtractKeeps
  /\ [][ext.status = "err" => UNCHANGED <<ext, fs, written>>]_vars

\* an extract that failed at its second record after writing a file
C9_Witness ==
  /\ ext.status = "err"
  /\ ext.i = 2
  /\ \E i \in written : ~IsDirRecord(i) /\ is_file_at(fs, TargetOf(i))

(***************************************************************************)
(* C10: read on a Tar-family archive.                                      *)
(***************************************************************************)
\* the records whose normalised path is the normalised target of the read
ReadMatches ==
  { i \in 1..Len(records) : PathOf(i) = normalise_inner(read_call.inner_path) }

\* C10: on a Tar-family archive read returns the contents of a record
\* whose normalised path is the normalised target whenever there is one,
\* fails with entry-not-found exactly when there is none, and never
\* returns the contents of a record with another normalised path.
C10_ReadTar ==
  (fmt = "tar" /\ read_call.done) =>
    /\ read_result.ok <=> ReadMatches # {}
    /\ read_result.ok =>
         /\ read_result.index \in ReadMatches
         /\ read_result.data = records[read_result.index].data

\* a Tar read that found a record under a stored name and a requested
\* path that both differ from the normalised path
C10_Witness ==
  /\ fmt = "tar"
  /\ read_call.done
  /\ read_result.ok
  /\ records[read_result.index].name # PathOf(read_result.index)
  /\ read_call.inner_path # normalise_inner(read_call.inner_path)

(***************************************************************************)
(* C11: read on a Zip archive.                                             *)
(***************************************************************************)
\* C11: on a Zip archive read succeeds whenever a stored record's
\* normalised path is the normalised target; in particular every File
\* entry that listing reports can be read by its inner path, whatever
\* separators and leading slashes the stored name has.
C11_ReadZip ==
  (fmt = "zip" /\ read_call.done) =>
    /\ ReadMatches # {} => read_result.ok
    /\ read_call.inner_path \in ReachableFiles(<<>>, LongestName) => read_result.ok

(***************************************************************************)
(* C12, C13: optional formats whose backend is not compiled in.            *)
(***************************************************************************)
\* the endings of the optional formats, the format and the name of each
OptionalEndings ==
  { [suffix |-> <<".", "7", "z">>, format |-> "SevenZip", name |-> "7z"],
    [suffix |-> <<".", "r", "a", "r">>, format |-> "Rar", name |-> "rar"],
    [suffix |-> <<".", "c", "a", "b">>, format |-> "Cab", name |-> "cab"],
    [suffix |-> <<".", "a", "r", "j">>, format |-> "Arj", name |-> "arj"],
    [suffix |-> <<".", "l", "z", "h">>, format |-> "Lzh", name |-> "lzh"],
    [suffix |-> <<".", "l", "h", "a">>, format |-> "Lzh", name |-> "lzh"],
    [suffix |-> <<".", "a", "c", "e">>, format |-> "Ace", name |-> "ace"] }

\* the archive is named as the optional format of `row`, whose backend is
\* not compiled in
Unavailable(row) ==
  /\ ends_with(to_lowercase(archive_path), row.suffix)
  /\ row.format \notin features

\* C12: listing an archive named as an optional format whose backend is
\* not compiled in fails with "Support for <format> format not compiled
\* in", naming the detected format; the error is none of the errors of
\* opening a file, the archive is not opened and no backend runs.
C12_ListNotCompiled ==
  \A row \in OptionalEndings :
    (dispatch.op = "list" /\ Unavailable(row)) =>
      /\ dispatch.error.message = "Support for {} format not compiled in"
      /\ dispatch.error.format = row.name
      /\ dispatch.error \notin IoErrors
      /\ ~dispatch.opened
      /\ dispatch.arm = "fallback"
      /\ listing.entries = <<>>

\* a .rar archive that is not on disk has been listed without the backend
C12_Witness ==
  /\ dispatch.op = "list"
  /\ ends_with(archive_path, <<".", "R", "A", "R">>)
  /\ "Rar" \notin features
  /\ ~disk.exists
  /\ dispatch.error.format = "rar"

\* C13: read and extract on an archive named as an optional format whose
\* backend is not compiled in return the same feature-not-compiled error
\* naming the detected format as list does.
C13_ReadExtractNotCompiled ==
  \A row \in OptionalEndings :
    (dispatch.op \in {"read", "extract"} /\ Unavailable(row)) =>
      /\ dispatch.error.message = "Support for {} format not compiled in"
      /\ dispatch.error.format = row.name

(***************************************************************************)
(* C14: names of no format.                                                *)
(***************************************************************************)
\* C14: when detect finds no format, list, read and extract return the
\* unrecognised-format error before any file access: the archive is not
\* opened, nothing is returned, extract does not create the destination.
C14_Unrecognised ==
  (dispatch.op # "" /\ detect(archive_path) = "None") =>
    /\ dispatch.error.message = "Unrecognised archive format: {archive_path}"
    /\ ~dispatch.opened
    /\ fs = EmptyMap
    /\ listing.entries = <<>>
    /\ ~read_result.ok
    /\ ext.status \in {"idle", "err"}
    /\ ext.extracted = <<>>

\* extract was called on an archive file that exists and has no format
C14_Witness ==
  /\ dispatch.op = "extract"
  /\ detect(archive_path) = "None"
  /\ disk.exists
  /\ ext.status = "err"

(***************************************************************************)
(* C15, C16: detect.                                                       *)
(***************************************************************************)
\* the format-to-extension table of the specification, in its order
FormatTable ==
  << [ format |-> "TarGz",
       suffixes |-> { <<".", "t", "a", "r", ".", "g", "z">>,
                     <<".", "t", "g", "z">> } ],
     [ format |-> "TarBz2",
       suffixes |-> { <<".", "t", "a", "r", ".", "b", "z", "2">>,
                     <<".", "t", "b", "z", "2">>,
                     <<".", "t", "b", "z">> } ],
     [ format |-> "TarXz",
       suffixes |-> { <<".", "t", "a", "r", ".", "x", "z">>,
                     <<".", "t", "x", "z">> } ],
     [ format |-> "TarZst",
       suffixes |-> { <<".", "t", "a", "r", ".", "z", "s", "t">>,
                     <<".", "t", "z", "s", "t">> } ],
     [ format |-> "Tar",
       suffixes |-> { <<".", "t", "a", "r">> } ],
     [ format |-> "Zip",
       suffixes |-> { <<".", "z", "i", "p">>,
                     <<".", "j", "a", "r">>,
                     <<".", "w", "a", "r">>,
                     <<".", "e", "a", "r">>,
                     <<".", "a", "p", "k">>,
                     <<".", "d", "o", "c", "x">>,
                     <<".", "x", "l", "s", "x">>,
                     <<".", "p", "p", "t", "x">>,
                     <<".", "o", "d", "t">>,
                     <<".", "o", "d", "s">>,
                     <<".", "o", "d", "p">> } ],
     [ format |-> "Gz",
       suffixes |-> { <<".", "g", "z">> } ],
     [ format |-> "Bz2",
       suffixes |-> { <<".", "b", "z", "2">> } ],
     [ format |-> "Xz",
       suffixes |-> { <<".", "x", "z">> } ],
     [ format |-> "Zst",
       suffixes |-> { <<".", "z", "s", "t">>,
                     <<".", "z", "s", "t", "d">> } ],
     [ format |-> "SevenZip",
       suffixes |-> { <<".", "7", "z">> } ],
     [ format |-> "Rar",
       suffixes |-> { <<".", "r", "a", "r">> } ],
     [ format |-> "Cab",
       suffixes |-> { <<".", "c", "a", "b">> } ],
     [ format |-> "Arj",
       suffixes |-> { <<".", "a", "r", "j">> } ],
     [ format |-> "Lzh",
       suffixes |-> { <<".", "l", "z", "h">>,
                     <<".", "l", "h", "a">> } ],
     [ format |-> "Ace",
       suffixes |-> { <<".", "a", "c", "e">> } ] >>

\* C15 as stated: the format a call detects is the one the table gives
\* for the lower-cased name, first matching rule in table order, and no
\* suffix outside the table changes that.
C15_DetectFollowsTable ==
  dispatch.op # "" =>
    dispatch.format = first_match(FormatTable, to_lowercase(archive_path))

\* C15: the format a call detects is the one the table gives for the
\* lower-cased name, first matching rule in table order, except for a name
\* ending in .tar.zstd, which is TarZst.
C15_DetectTableAndTarZstd ==
  dispatch.op # "" =>
    dispatch.format =
      IF ends_with(to_lowercase(archive_path), <<".", "t", "a", "r", ".", "z", "s", "t", "d">>)
      THEN "TarZst"
      ELSE first_match(FormatTable, to_lowercase(archive_path))

\* a call on a name ending in .tar.zstd, and one on a name in capitals
C15_Witness ==
  /\ dispatch.op # ""
  /\ \/ ends_with(archive_path, <<".", "t", "a", "r", ".", "z", "s", "t", "d">>) /\ dispatch.format = "TarZst"
     \/ ends_with(archive_path, <<".", "Z", "i", "p">>) /\ dispatch.format = "Zip"

\* every suffix detect knows
KnownSuffixes == UNION { DetectRules[k].suffixes : k \in 1..Len(DetectRules) }

\* C16: a name ending in a compound Tar suffix is detected as that Tar
\* format, never as the bare compression; a name ending in a bare .gz,
\* .bz2, .xz or .zst without .tar before it is the single-file format; a
\* name no rule matches has no format.
C16_CompoundPrecedence ==
  LET lower == to_lowercase(archive_path)
      ends(x) == ends_with(lower, x)
  IN  dispatch.op # "" =>
        /\ (ends(<<".", "t", "a", "r", ".", "g", "z">>) \/ ends(<<".", "t", "g", "z">>)) => dispatch.format = "TarGz"
        /\ (ends(<<".", "t", "a", "r", ".", "b", "z", "2">>) \/ ends(<<".", "t", "b", "z", "2">>)
              \/ ends(<<".", "t", "b", "z">>)) => dispatch.format = "TarBz2"
        /\ (ends(<<".", "t", "a", "r", ".", "x", "z">>) \/ ends(<<".", "t", "x", "z">>)) => dispatch.format = "TarXz"
        /\ (ends(<<".", "t", "a", "r", ".", "z", "s", "t">>) \/ ends(<<".", "t", "z", "s", "t">>)) => dispatch.format = "TarZst"
        /\ (ends(<<".", "g", "z">>) /\ ~ends(<<".", "t", "a", "r", ".", "g", "z">>)) => dispatch.format = "Gz"
        /\ (ends(<<".", "b", "z", "2">>) /\ ~ends(<<".", "t", "a", "r", ".", "b", "z", "2">>)) => dispatch.format = "Bz2"
        /\ (ends(<<".", "x", "z">>) /\ ~ends(<<".", "t", "a", "r", ".", "x", "z">>)) => dispatch.format = "Xz"
        /\ (ends(<<".", "z", "s", "t">>) /\ ~ends(<<".", "t", "a", "r", ".", "z", "s", "t">>)) => dispatch.format = "Zst"
        /\ ~ends_with_any(lower, KnownSuffixes) => dispatch.format = "None"

\* calls on a.TAR.GZ, on a.gz and on a.txt
C16_Witness ==
  /\ dispatch.op # ""
  /\ \/ archive_path = <<"a", ".", "T", "A", "R", ".", "G", "Z">> /\ dispatch.format = "TarGz"
     \/ archive_path = <<"a", ".", "g", "z">> /\ dispatch.format = "Gz"
     \/ archive_path = <<"a", ".", "t", "x", "t">> /\ dispatch.format = "None"

(***************************************************************************)
(* C17, C18, C19: single-file compressed archives.                         *)
(***************************************************************************)
CompressionSuffixes ==
  { <<".", "g", "z">>,
    <<".", "b", "z", "2">>,
    <<".", "x", "z">>,
    <<".", "z", "s", "t">>,
    <<".", "z", "s", "t", "d">> }

\* the file name of the archive without its compression suffix
StrippedName ==
  LET name   == file_name(archive_path)
      suffix == CHOOSE x \in CompressionSuffixes : ends_with(to_lowercase(name), x)
  IN  SubSeq(name, 1, Len(name) - Len(suffix))

\* a single-file archive has been listed at the root
SingleFileListedAtRoot ==
  /\ dispatch.op = "list" /\ dispatch.error = NoError
  /\ dispatch.format \in SingleFileFormats
  /\ normalise_inner(list_call.inner_path) = <<>>

\* the listing is one File entry of that name with the sizes of the claim
OneFileNamed(name) ==
  /\ Len(listing.entries) = 1
  /\ listing.entries[1].name = name
  /\ listing.entries[1].inner_path = name
  /\ listing.entries[1].entry_type = "File"
  /\ listing.entries[1].size = disk.len
  /\ listing.entries[1].compressed_size = disk.len
  /\ listing.entries[1].modified = 0
  /\ listing.total_size = disk.len

\* C17 as stated: the root listing of a single-file archive is one File
\* entry named by the archive's file name with its compression suffix
\* stripped, size and compressed_size the on-disk size, modified 0, and
\* total_size that size.
C17_SuffixStripped == SingleFileListedAtRoot => OneFileNamed(StrippedName)

\* C17: the same, but a file name that is nothing but the suffix (".gz")
\* names the entry as it is.
C17_SingleFileStem ==
  SingleFileListedAtRoot =>
    OneFileNamed(IF StrippedName = <<>> THEN file_name(archive_path)
                 ELSE StrippedName)

\* d/a.gz of two bytes has been listed, and so has a file named .gz
C17_Witness ==
  /\ SingleFileListedAtRoot
  /\ \/ /\ archive_path = <<"d", "/", "a", ".", "g", "z">>
        /\ disk.len = 2
        /\ listing.entries[1].name = <<"a">>
     \/ /\ archive_path = <<".", "g", "z">>
        /\ listing.entries[1].name = <<".", "g", "z">>

\* C18: read on a single-file archive returns the decompressed stream
\* only when the normalised inner path is the listed entry's inner path,
\* the stem, and fails with the entry-not-found error for any other path.
C18_SingleFileRead ==
  (dispatch.op = "read" /\ dispatch.format \in SingleFileFormats /\ disk.exists) =>
    IF normalise_inner(read_call.inner_path) = file_stem(archive_path)
    THEN read_result.ok /\ read_result.data = disk.stream
    ELSE ~read_result.ok /\ dispatch.error = EntryNotFound

\* the selection is empty or one of its targets is the stem or an ancestor
SelectsStem ==
  \/ ext.inner_paths = <<>>
  \/ \E k \in 1..Len(ext.inner_paths) :
       \/ normalise_inner(ext.inner_paths[k]) = file_stem(archive_path)
       \/ is_descendant(file_stem(archive_path), normalise_inner(ext.inner_paths[k]))

\* C19: extract on a single-file archive follows the selection: when the
\* selection does not select the stem it writes nothing and returns the
\* empty list, else it writes destination/stem with the decompressed
\* stream and returns that one path.
C19_SingleFileSelection ==
  (dispatch.op = "extract" /\ dispatch.format \in SingleFileFormats
     /\ ext.status = "ok" /\ read_call.done = FALSE) =>
    IF SelectsStem
    THEN /\ fs[<<file_stem(archive_path)>>] = File(disk.stream)
         /\ ext.extracted = <<out_path(file_stem(archive_path))>>
    ELSE /\ \A q \in DOMAIN fs : fs[q].kind = "dir"
         /\ ext.extracted = <<>>

(***************************************************************************)
(* C20: listing twice.                                                     *)
(***************************************************************************)
\* C20: a second list call on the same archive with the same inner path
\* returns the listing the first returned, the same entries with the same
\* fields in the same order, whatever order the map yields its values in.
C20_Idempotent ==
  relisting.done => relisting.listing = listing

\* a parent whose map holds several entries, so that the map may yield
\* them in several orders, has been listed twice
C20_Witness ==
  /\ relisting.done
  /\ Len(listing.entries) >= 2
  /\ Cardinality(into_values(list_seen(fmt, records, ListedParent))) >= 2

(***************************************************************************)
(* C22, C23: directory entries.                                            *)
(***************************************************************************)
\* C22: every Directory entry of a listing has size 0, whether it was
\* synthesized or built from a stored directory record, whatever size
\* that record carries.
C22_DirectoriesSizeZero ==
  list_call.done =>
    \A k \in 1..Len(listing.entries) :
      listing.entries[k].entry_type = "Directory" => listing.entries[k].size = 0

\* the first record, in the backend's order, that gives the key of the
\* k-th entry of the listing
FirstFor(k) ==
  LET givers == { j \in Listed(ListedParent) :
                    direct_child_path(PathOf(j), ListedParent)
                      = listing.entries[k].inner_path }
  IN  CHOOSE j \in givers : \A i \in givers : j <= i

\* the k-th entry was synthesized: the record that produced it lies deeper
Synthesized(k) == PathOf(FirstFor(k)) # listing.entries[k].inner_path

\* C23: a synthesized directory entry is a Directory of size 0,
\* compressed_size 0 and modified 0, labelled "Stored" in a Zip listing and
\* with the listing's format in a Tar listing.
C23_SyntheticDirectory ==
  list_call.done =>
    \A k \in 1..Len(listing.entries) :
      Synthesized(k) =>
        /\ listing.entries[k].entry_type = "Directory"
        /\ listing.entries[k].size = 0
        /\ listing.entries[k].compressed_size = 0
        /\ listing.entries[k].modified = 0
        /\ listing.entries[k].compression =
             IF fmt = "zip" THEN "Stored" ELSE listing.format

\* a listing holds a synthesized entry whose key a later record names
C23_Witness ==
  /\ list_call.done
  /\ \E k \in 1..Len(listing.entries) :
       /\ Synthesized(k)
       /\ \E j \in Listed(ListedParent) :
            j > FirstFor(k) /\ PathOf(j) = listing.entries[k].inner_path

(***************************************************************************)
(* C24: the listing of a cabinet.                                          *)
(***************************************************************************)
\* C24: list on a cabinet has the shape of list on a Zip: every stored
\* record in the listed subtree contributes its direct-child key, so a
\* record deeper than one segment yields a synthesized Directory entry
\* (a cabinet whose only record is a/B lists the Directory a at the root).
C24_CabSynthesizes ==
  (dispatch.op = "list" /\ dispatch.format = "Cab" /\ dispatch.arm = "backend"
     /\ dispatch.error = NoError) =>
    /\ ListedKeys = { direct_child_path(PathOf(i), ListedParent) :
                        i \in Contributors(ListedParent) }
    /\ \A i \in Contributors(ListedParent) :
         LET key == direct_child_path(PathOf(i), ListedParent) IN
         PathOf(i) # key =>
           \E k \in 1..Len(listing.entries) :
             /\ listing.entries[k].inner_path = key
             /\ listing.entries[k].entry_type = "Directory"

(***************************************************************************)
(* C25: a selection target that is the archive root.                       *)
(***************************************************************************)
\* C25: a selection target that normalises to the empty path stands for the
\* archive root, everything being under an empty parent: a finished extract
\* whose selection holds such a target has written every stored record
\* (every record with a path, bar the "." record a Tar extraction skips).
C25_RootTargetSelectsAll ==
  (ext.status = "ok" /\ dispatch.arm \in {"zip", "tar"}
     /\ \E k \in 1..Len(ext.inner_paths) :
          normalise_inner(ext.inner_paths[k]) = <<>>) =>
    \A i \in 1..Len(records) :
      (PathOf(i) # <<>> /\ ~IsTarDot(i)) => i \in written

(***************************************************************************)
(* C26: normalise_inner is idempotent and canonical.                       *)
(***************************************************************************)
\* C26: normalising a normalised string changes nothing, and a normalised
\* string holds no backslash and neither starts nor ends with "/".
C26_Canonical ==
  /\ norm.stage >= 1 =>
       /\ \A i \in 1..Len(norm.once) : norm.once[i] # "\\"
       /\ norm.once # <<>> => (norm.once[1] # "/" /\ norm.once[Len(norm.once)] # "/")
  /\ norm.stage = 2 => norm.twice = norm.once

\* a string with backslashes and slashes at both ends has been normalised
\* twice and has kept something
C26_Witness ==
  /\ norm.stage = 2
  /\ Len(norm.input) = MaxLen
  /\ norm.input[1] = "\\" /\ norm.input[Len(norm.input)] = "/"
  /\ norm.once # <<>> /\ norm.once # norm.input

(***************************************************************************)
(* C27: extraction stays inside the destination.                           *)
(***************************************************************************)
\* the path, a sequence of components below the destination, leaves the
\* destination: at some point it has gone up more often than down
Escapes(path) ==
  \E n \in 1..Len(path) :
    Cardinality({ k \in 1..n : path[k] = <<".", ".">> })
      > Cardinality({ k \in 1..n : path[k] # <<".", ".">> })

\* C27: every file extract writes lies inside the destination directory,
\* whatever the stored names are, names with ".." segments included.
C27_InsideDestination ==
  ext.status # "idle" =>
    \A q \in DOMAIN fs : fs[q].kind = "file" => ~Escapes(q)

(***************************************************************************)
(* C28: listing a path that has nothing below it.                          *)
(***************************************************************************)
\* no stored record lies below the listed parent
NothingBelow ==
  /\ ListedParent # <<>>
  /\ \A i \in 1..Len(records) : ~starts_with(PathOf(i), ListedParent \o <<"/">>)

\* C28: list on a Zip or Tar archive with an inner path that no record
\* lies below (a path that is not in the archive, or the path of a File
\* record) succeeds with no entries and total_size 0, and the listing's
\* inner_path is the normalised requested path.
C28_EmptyListing ==
  (list_call.done /\ NothingBelow) =>
    /\ dispatch.error = NoError
    /\ listing.entries = <<>>
    /\ listing.total_size = 0
    /\ listing.inner_path = normalise_inner(list_call.inner_path)

\* the path of a File record, written with a backslash and a trailing
\* slash, has been listed
C28_Witness ==
  /\ list_call.done /\ NothingBelow
  /\ list_call.inner_path # ListedParent
  /\ \E i \in 1..Len(records) : PathOf(i) = ListedParent /\ ~IsDirRecord(i)

(***************************************************************************)
(* C21: concurrent list and read calls.                                    *)
(***************************************************************************)
\* the listings the list call of p would return if it ran alone
AloneListings(p) ==
  LET on == Shelf[procs[p].k] IN
  { ArchiveListing(on.fmt, procs[p].inner_path, values) :
      values \in into_values(list_seen(on.fmt, on.records,
                                       normalise_inner(procs[p].inner_path))) }

\* C21: list and read calls that run interleaved, on the same archive or
\* on different ones, each return what they would return running alone.
C21_Independent ==
  \A p \in DOMAIN procs :
    procs[p].pc = "done" =>
      /\ procs[p].op = "list" => procs[p].listing \in AloneListings(p)
      /\ procs[p].op = "read" =>
           procs[p].read = read_archive_file(Shelf[procs[p].k].fmt,
                                             Shelf[procs[p].k].records,
                                             procs[p].inner_path)

\* two list calls on one archive with different inner paths have run at
\* the same time and have both returned entries
C21_Witness ==
  /\ procs # <<>>
  /\ procs[1].pc = "done" /\ procs[2].pc = "done"
  /\ procs[1].op = "list" /\ procs[2].op = "list"
  /\ procs[1].k = procs[2].k
  /\ procs[1].inner_path # procs[2].inner_path
  /\ procs[1].overlapped /\ procs[2].overlapped
  /\ procs[1].listing.entries # <<>> /\ procs[2].listing.entries # <<>>

(***************************************************************************)
(* C29: concurrent extract calls into one destination.                     *)
(***************************************************************************)
RECURSIVE extract_from(_, _, _)
\* the destination after the loop of an extract call that runs alone from
\* record i on
extract_from(on, i, dest) ==
  IF i > Len(on.records) THEN dest
  ELSE LET r == extract_entry(on.fmt, on.records[i], <<>>, dest, <<>>)
       IN  IF r.failed THEN r.fs ELSE extract_from(on, i + 1, r.fs)

\* the destination after a whole extract call of archive k that runs alone
ExtractAlone(k, dest) ==
  extract_from(RaceArchives[k], 1, create_dir_all(dest, <<>>).fs)

\* C29: when two extract calls have run interleaved into one destination,
\* the destination is as one of the two serial orders of the calls
\* leaves it.
C29_Serializable ==
  (jobs # <<>> /\ \A j \in 1..2 : jobs[j].pc \in {"done", "err"}) =>
    \/ fs = ExtractAlone(jobs[2].k, ExtractAlone(jobs[1].k, EmptyMap))
    \/ fs = ExtractAlone(jobs[1].k, ExtractAlone(jobs[2].k, EmptyMap))

(***************************************************************************)
(* C30: the order of the steps of extract_archive.                         *)
(***************************************************************************)
\* C30: extract_archive detects the format, then creates the destination,
\* then opens the archive: a call on a recognised format that fails
\* because the archive file is missing or cannot be read leaves the
\* destination directory behind, a call on a name of no format does not
\* create it.
C30_DestinationThenOpen ==
  dispatch.op = "extract" =>
    /\ detect(archive_path) = "None" => ext.status = "err" /\ fs = EmptyMap
    /\ dispatch.error \in IoErrors =>
         /\ ext.status = "err"
         /\ fs = create_dir_all(EmptyMap, <<>>).fs
    /\ (dispatch.error = NoError /\ ext.status = "err") => is_dir_at(fs, <<>>)

\* extract has failed on a missing archive of a recognised format and has
\* left the destination behind
C30_Witness ==
  /\ dispatch.op = "extract"
  /\ detect(archive_path) = "TarGz"
  /\ ~disk.exists
  /\ dispatch.error \in IoErrors
  /\ ext.status = "err"
  /\ is_dir_at(fs, <<>>)

====
